---- MODULE Spec2Model ----
(***************************************************************************)
(* BullBearPK recommendation pipeline (backend/agentic_framework.py and    *)
(* the agents and database layer it calls).                                *)
(*                                                                         *)
(* Numbers: confidence and sentiment scores of the agents are kept in      *)
(* percent (0.9 -> 90); the synthesizer's risk-adjusted score and every    *)
(* stored confidence_score are kept in thousandths (0.54 -> 540), so that  *)
(* 0.6*technical + 0.4*sentiment is exact.                                 *)
(***************************************************************************)
EXTENDS Integers, Sequences, FiniteSets, TLC

\* ---------------------------------------------------------------- bounds
\* requests served in one behaviour, and failures injected in one behaviour
MaxRuns == 2
MaxFaults == 1

\* the request threads of the server: each runs one run_workflow at a time
Runs == {1, 2}
Users == {"u1", "u2"}

\* ------------------------------------------------------- generic helpers
Range(s) == {s[i] : i \in 1..Len(s)}

Min2(a, b) == IF a < b THEN a ELSE b

\* python  s[:n]
Take(s, n) == SubSeq(s, 1, Min2(n, Len(s)))

Abs(x) == IF x < 0 THEN 0 - x ELSE x

\* ------------------------------------------------------------ market data
\* A market record as the analyzer sees it.  perf (hundredths of a point)
\* and conf (percent) stand for the performance_score and confidence_score
\* analyze_stock_comprehensive derives from the record.
Rec(c, p, k) == [code |-> c, perf |-> p, conf |-> k]

\* the hard-coded fallback snapshot of _scrape_stocks_node
SampleData ==
    << Rec("HBL", 10000, 90), Rec("UBL", 10000, 90), Rec("OGDC", 10000, 90),
       Rec("PPL", 10000, 90), Rec("LUCK", 10000, 90) >>

\* the snapshot the live scraper delivers
LiveSnapshots == { << Rec("OGDC", 4000, 50), Rec("HBL", 9000, 80) >> }

\* ---------------------------------------------------- technical analysis
TopPerformers == 10
TopN == 5

RECURSIVE InsertDesc(_, _)
\* place x behind every element whose score is >= its own (stable)
InsertDesc(x, s) ==
    IF s = << >> THEN << x >>
    ELSE IF Head(s).performance_score >= x.performance_score
         THEN << Head(s) >> \o InsertDesc(x, Tail(s))
         ELSE << x >> \o s

RECURSIVE SortDesc(_)
\* list.sort(key=performance_score, reverse=True)
SortDesc(s) ==
    IF s = << >> THEN << >>
    ELSE InsertDesc(s[Len(s)], SortDesc(SubSeq(s, 1, Len(s) - 1)))

Profile(c, p, k, rk) ==
    [stock_code |-> c, performance_score |-> p, confidence_score |-> k, rank |-> rk]

\* analyze_stocks_advanced_agentic sorting without reverse=True
analyze_stocks_sorted_ascending(stock_data) ==
    LET analyzed == [i \in 1..Len(stock_data) |->
                        Profile(stock_data[i].code, stock_data[i].perf,
                                stock_data[i].conf, 0)]
        sorted == SortDesc(analyzed)
        top == Take([i \in 1..Len(sorted) |-> sorted[Len(sorted) + 1 - i]], TopPerformers)
    IN [i \in 1..Len(top) |-> [top[i] EXCEPT !.rank = i]]

\* analyze_stocks_advanced_agentic, success path: analyse every record,
\* sort by performance_score descending, keep the first ten, number them
analyze_stocks_advanced_agentic(stock_data) ==
    LET analyzed == [i \in 1..Len(stock_data) |->
                        Profile(stock_data[i].code, stock_data[i].perf,
                                stock_data[i].conf, 0)]
        top == Take(SortDesc(analyzed), TopPerformers)
    IN [i \in 1..Len(top) |-> [top[i] EXCEPT !.rank = i]]

\* _create_mock_analysis: performance 0.7 + i*0.05, confidence 0.6 + i*0.08
\* for the first five records, i counted from 0
create_mock_analysis(stock_data) ==
    LET five == Take(stock_data, TopN)
    IN [i \in 1..Len(five) |->
           Profile(five[i].code, 70 + (i - 1) * 5, 60 + (i - 1) * 8, i)]

\* ------------------------------------------------------------------ news
\* What the news sites carry during a run.  An article is a row of
\* news_records: the company, its content hash and the polarity TextBlob
\* gives its text.
NewsFeeds == {"none", "positive"}

Article(c, h, s) == [stock_code |-> c, content_hash |-> h, sentiment |-> s]

scrape_company_news(feed, code) ==
    IF feed = "positive" THEN {Article(code, 1, "positive")} ELSE {}

NewsAnalysisResult(c, o, s, n) ==
    [stock_code |-> c, overall_sentiment |-> o, sentiment_score |-> s, news_count |-> n]

PositiveRatioMin == 4

\* analyze_news_for_company over the rows read for one company
analyze_news_for_company(rows, code) ==
    LET total == Cardinality(rows)
        pos == Cardinality({a \in rows : a.sentiment = "positive"})
        neg == Cardinality({a \in rows : a.sentiment = "negative"})
    IN IF total = 0 THEN NewsAnalysisResult(code, "neutral", 0, 0)
       ELSE IF pos > neg /\ 10 * pos > PositiveRatioMin * total
            THEN NewsAnalysisResult(code, "bullish", (100 * pos) \div total, total)
       ELSE IF neg > pos /\ 10 * neg > PositiveRatioMin * total
            THEN NewsAnalysisResult(code, "bearish", 0 - ((100 * neg) \div total), total)
       ELSE NewsAnalysisResult(code, "neutral", 0, total)

\* analyze_company_news: reads the company's rows from the news_records table
analyze_company_news(table, code) ==
    analyze_news_for_company({a \in table : a.stock_code = code}, code)

\* -------------------------------------------------- recommendation agent
\* a dict {} in the state record
EmptyDict == << >>

TechnicalWeight == 6
SentimentWeight == 4
DefaultSentiment == 50
StrongBuyAbove == 800
BuyAbove == 600
HoldAbove == 400

Recommendation(c, t, k) ==
    [stock_code |-> c, recommendation_type |-> t, confidence_score |-> k]

\* the type thresholds taken as inclusive
recommendation_type_inclusive(score) ==
    IF score >= StrongBuyAbove THEN "strong_buy"
    ELSE IF score >= BuyAbove THEN "buy"
    ELSE IF score >= HoldAbove THEN "hold"
    ELSE "sell"

\* the type thresholds on risk_adjusted_score
recommendation_type(score) ==
    IF score > StrongBuyAbove THEN "strong_buy"
    ELSE IF score > BuyAbove THEN "buy"
    ELSE IF score > HoldAbove THEN "hold"
    ELSE "sell"

\* news_analysis.get(stock_code, {}) followed by .get('sentiment_score', 0.5)
sentiment_of(news_analysis, code) ==
    IF code \in DOMAIN news_analysis THEN news_analysis[code].sentiment_score
    ELSE DefaultSentiment

RECURSIVE InsertByConfidence(_, _)
InsertByConfidence(x, s) ==
    IF s = << >> THEN << x >>
    ELSE IF Head(s).confidence_score >= x.confidence_score
         THEN << Head(s) >> \o InsertByConfidence(x, Tail(s))
         ELSE << x >> \o s

RECURSIVE SortByConfidence(_)
\* recommendations.sort(key=confidence_score, reverse=True)
SortByConfidence(s) ==
    IF s = << >> THEN << >>
    ELSE InsertByConfidence(s[Len(s)], SortByConfidence(SubSeq(s, 1, Len(s) - 1)))

\* RecommendationAgent.generate_recommendations, the list it returns
generate_recommendations(stock_analysis, news_analysis) ==
    LET top == Take(stock_analysis, TopN)
        score(a) == TechnicalWeight * a.confidence_score
                    + SentimentWeight * sentiment_of(news_analysis, a.stock_code)
        recs == [i \in 1..Len(top) |->
                    Recommendation(top[i].stock_code,
                                   recommendation_type(score(top[i])),
                                   score(top[i]))]
    IN SortByConfidence(recs)

\* ------------------------------------------------------ recommendation diff
ChangeThreshold == 100

EmptyDelta ==
    [new_recommendations |-> {}, removed_recommendations |-> {},
     changed_recommendations |-> {}, unchanged_recommendations |-> {}]

\* {rec['stock_code']: rec for rec in recs}: a later record replaces an earlier
Lookup(recs) ==
    [c \in {recs[i].stock_code : i \in 1..Len(recs)} |->
        recs[CHOOSE i \in 1..Len(recs) :
                /\ recs[i].stock_code = c
                /\ \A j \in 1..Len(recs) : recs[j].stock_code = c => j <= i]]

\* a test that also counts a confidence difference of exactly the threshold;
\* C9 tells it from is_changed
is_changed_from_threshold(old_rec, new_rec) ==
    \/ old_rec.recommendation_type # new_rec.recommendation_type
    \/ Abs(old_rec.confidence_score - new_rec.confidence_score) >= ChangeThreshold

\* the test that puts a symbol of both sets into changed_recommendations
is_changed(old_rec, new_rec) ==
    \/ old_rec.recommendation_type # new_rec.recommendation_type
    \/ Abs(old_rec.confidence_score - new_rec.confidence_score) > ChangeThreshold

\* a comparison that reports every symbol of the old set as removed; C8 tells
\* it from compare_recommendations
compare_removing_all_old(old_recommendations, new_recommendations) ==
    LET old_lookup == Lookup(old_recommendations)
        new_lookup == Lookup(new_recommendations)
        both == DOMAIN old_lookup \cap DOMAIN new_lookup
    IN [new_recommendations |->
            {[stock_code |-> c,
              recommendation |-> new_lookup[c].recommendation_type,
              confidence |-> new_lookup[c].confidence_score]
                : c \in DOMAIN new_lookup \ DOMAIN old_lookup},
        removed_recommendations |->
            {[stock_code |-> c,
              old_recommendation |-> old_lookup[c].recommendation_type]
                : c \in DOMAIN old_lookup},
        changed_recommendations |->
            {[stock_code |-> c,
              old_recommendation |-> old_lookup[c].recommendation_type,
              new_recommendation |-> new_lookup[c].recommendation_type,
              old_confidence |-> old_lookup[c].confidence_score,
              new_confidence |-> new_lookup[c].confidence_score]
                : c \in {d \in both : is_changed(old_lookup[d], new_lookup[d])}},
        unchanged_recommendations |->
            {[stock_code |-> c,
              recommendation |-> new_lookup[c].recommendation_type,
              confidence |-> new_lookup[c].confidence_score]
                : c \in {d \in both : ~is_changed(old_lookup[d], new_lookup[d])}}]

\* DatabaseConfig.compare_recommendations on well-formed records
compare_recommendations(old_recommendations, new_recommendations) ==
    LET old_lookup == Lookup(old_recommendations)
        new_lookup == Lookup(new_recommendations)
        both == DOMAIN old_lookup \cap DOMAIN new_lookup
    IN [new_recommendations |->
            {[stock_code |-> c,
              recommendation |-> new_lookup[c].recommendation_type,
              confidence |-> new_lookup[c].confidence_score]
                : c \in DOMAIN new_lookup \ DOMAIN old_lookup},
        removed_recommendations |->
            {[stock_code |-> c,
              old_recommendation |-> old_lookup[c].recommendation_type]
                : c \in DOMAIN old_lookup \ DOMAIN new_lookup},
        changed_recommendations |->
            {[stock_code |-> c,
              old_recommendation |-> old_lookup[c].recommendation_type,
              new_recommendation |-> new_lookup[c].recommendation_type,
              old_confidence |-> old_lookup[c].confidence_score,
              new_confidence |-> new_lookup[c].confidence_score]
                : c \in {d \in both : is_changed(old_lookup[d], new_lookup[d])}},
        unchanged_recommendations |->
            {[stock_code |-> c,
              recommendation |-> new_lookup[c].recommendation_type,
              confidence |-> new_lookup[c].confidence_score]
                : c \in {d \in both : ~is_changed(old_lookup[d], new_lookup[d])}}]

\* ================================================================= state
VARIABLES
    pc,          \* per run: the step run_workflow / the workflow graph is at
    wf,          \* per run: the locals of run_workflow
    state,       \* per run: the state dict threaded through the nodes
    result,      \* per run: the dict run_workflow returns
    started,     \* number of runs started so far
    faults,      \* failures injected so far
    trace,       \* per run: the nodes executed, in order (history variable)
    inputs,      \* per run: what the outside world supplied (history variable)
    stocks,                        \* table stocks (codes)
    stock_analysis_table,          \* table stock_analysis
    news_records,                  \* table news_records
    news_analysis_table,           \* table news_analysis
    recommendations,               \* table recommendations
    users,                         \* table users
    user_form_submissions,         \* table user_form_submissions
    user_recommendations_history,  \* table user_recommendations_history
    auto_increment,                \* AUTO_INCREMENT of user_form_submissions.id
    last_saved,  \* per user: id of the submission stored last (history variable)
    old_recommendations,   \* compare_recommendations called on its own:
    new_recommendations,   \*   its two arguments
    changes,               \*   what it returned
    called,                \*   whether it has been called
    request,     \* per thread: the request it serves (entry path, preferences, answer)
    stock_codes,   \* analyze_multiple_companies called on its own: its argument
    news_rows,     \*   the news_records table it reads
    tasks_awaited, \*   how many of its tasks it has awaited
    results,       \*   its results dict
    task_failed,   \*   the companies whose task raised (history variable)
    fan_pc,        \*   where the call is: "awaiting", "returned", "cancelled"
    cancel_at,     \*   tasks awaited when the run was cancelled, -1 if it was not
    sql_mode,      \* the decision ledger: whether the database session is strict
    investments,   \*   table investments (the rows of one user)
    portfolios,    \*   table portfolios (the latest snapshot of that user)
    decisions,     \*   number of decisions handled so far
    decision,      \*   the decision handled last (history variable)
    outcome,       \*   what the handler answered to it
    market_records,   \* check_portfolio in a run: the run's market data
    profiles,         \*   state['stock_analysis'] of the run
    portfolio_result, \*   what check_portfolio returned
    reconcile_pc,     \*   where the run is: "scraped", "analyzed", "checked"
    cohort,               \* the analyser called on its own: the market records
    technical_indicators, \*   per record, its oscillators
    top_performers,       \*   the ranked profiles it returned
    analyzed_stocks,      \*   the analysis of each record it did not skip
    analyzer_pc,          \*   "idle", "called" or "returned"
    news_items,           \* the news analyser called on its own: the rows read
    sentiment_profile,    \*   the NewsAnalysisResult it returned
    news_pc,              \*   "idle", "called" or "returned"
    risk_user,            \* check_risk_profile called on its own: the users row
    risk_history,         \*   the rows get_user_investments returns
    risk_portfolio,       \*   the row get_user_portfolio returns
    risk_result,          \*   the dict it returned
    risk_pc,              \*   "idle", "called" or "returned"
    synth_news,           \* the synthesizer after the analyser: state['news_analysis']
    synth_recs,           \*   the recommendations it returned
    synth_pc,             \*   "idle", "waiting" or "returned"
    account,              \* record_investment_transaction: the users row
    attempt,              \* scrape_data called on its own: the loop's index
    attempts,             \*   what each attempt so far met
    scrape_result,        \*   the list it returned
    scrape_pc             \*   "idle", "trying", "returned" or "raised"

runVars == << pc, wf, state, result, started, faults, trace, inputs >>
marketTables == << stocks, stock_analysis_table, news_records, news_analysis_table >>
userTables == << recommendations, users >>
historyTables == << user_form_submissions, user_recommendations_history, auto_increment, last_saved >>
diffVars == << old_recommendations, new_recommendations, changes, called >>
entryVars == << request >>
fanVars == << stock_codes, news_rows, tasks_awaited, results, task_failed, fan_pc, cancel_at >>
ledgerVars == << sql_mode, investments, portfolios, decisions, decision, outcome >>
reconcileVars == << market_records, profiles, portfolio_result, reconcile_pc >>
analyzerVars == << cohort, technical_indicators, top_performers, analyzed_stocks, analyzer_pc >>
newsVars == << news_items, sentiment_profile, news_pc >>
riskVars == << risk_user, risk_history, risk_portfolio, risk_result, risk_pc >>
synthVars == << synth_news, synth_recs, synth_pc >>
accountVars == << account >>
scrapeVars == << attempt, attempts, scrape_result, scrape_pc >>
toolVars == << newsVars, riskVars, synthVars, accountVars, scrapeVars >>
sideVars == << ledgerVars, reconcileVars, analyzerVars, toolVars >>
auxVars == << entryVars, fanVars, sideVars >>
vars == << runVars, marketTables, userTables, historyTables, diffVars, auxVars >>

\* the workflow edges of _create_workflow, entry point first
Workflow ==
    << "scrape_stocks", "analyze_stocks", "scrape_news", "analyze_news",
       "check_risk", "check_past_investments", "check_portfolio",
       "generate_recommendations", "handle_user_decision" >>

END == "END"

\* a graph whose edge from scrape_news leads past analyze_news; C1 tells it
\* from next_node
next_node_past_analyze_news(n) ==
    LET i == CHOOSE k \in 1..Len(Workflow) : Workflow[k] = n
    IN IF i = Len(Workflow) THEN END
       ELSE IF n = "scrape_news" THEN "check_risk" ELSE Workflow[i + 1]

\* the node an edge leads to from node n
next_node(n) ==
    LET i == CHOOSE k \in 1..Len(Workflow) : Workflow[k] = n
    IN IF i = Len(Workflow) THEN END ELSE Workflow[i + 1]

\* initial_state of run_workflow
initial_state ==
    [stock_data |-> << >>, stock_analysis |-> << >>, news_data |-> EmptyDict,
     news_analysis |-> EmptyDict, risk_profile |-> "empty", user_history |-> "empty",
     portfolio_update |-> "empty", recommendations |-> << >>,
     user_decision_results |-> "unset"]

NoLocals ==
    [user_id |-> "none", prior |-> 0, previous_form |-> 0,
     previous_recommendations |-> << >>,
     comparison_summary |-> EmptyDict, compared |-> FALSE,
     new_recommendations |-> << >>, inserted_id |-> 0, form_id |-> 0,
     save_attempted |-> FALSE, saved |-> FALSE, rows_saved |-> 0]

\* nothing returned yet
NoResult == [success |-> FALSE]

NoInputs == [snapshot |-> << >>, source_empty |-> FALSE, feed |-> "none", stage_failed |-> {}]

InitPipeline ==
    /\ pc = [r \in Runs |-> "idle"]
    /\ wf = [r \in Runs |-> NoLocals]
    /\ state = [r \in Runs |-> initial_state]
    /\ result = [r \in Runs |-> NoResult]
    /\ started = 0
    /\ faults = 0
    /\ trace = [r \in Runs |-> << >>]
    /\ inputs = [r \in Runs |-> NoInputs]
    /\ stocks = {}
    /\ stock_analysis_table = {}
    /\ news_records = {}
    /\ news_analysis_table = {}
    /\ recommendations = {}
    /\ users = {}
    /\ user_form_submissions = {}
    /\ user_recommendations_history = {}
    /\ auto_increment = 0
    /\ last_saved = [u \in Users |-> 0]

\* no request received yet
NoRequest == [path |-> "none", user_input |-> << >>, response |-> "none"]

IdleEntry == request = [r \in Runs |-> NoRequest]

IdleFan ==
    /\ stock_codes = << >>
    /\ news_rows = {}
    /\ tasks_awaited = 0
    /\ results = << >>
    /\ task_failed = {}
    /\ fan_pc = "idle"
    /\ cancel_at = -1

\* no decision handled, no investment recorded
NoDecision == [decision_type |-> "none"]

IdleLedger ==
    /\ sql_mode = "strict"
    /\ investments = << >>
    /\ portfolios = << >>
    /\ decisions = 0
    /\ decision = NoDecision
    /\ outcome = "none"

NoPortfolioResult == [status |-> "none", updated_holdings |-> << >>]

IdleReconcile ==
    /\ market_records = << >>
    /\ profiles = << >>
    /\ portfolio_result = NoPortfolioResult
    /\ reconcile_pc = "idle"

IdleAnalyzer ==
    /\ cohort = << >>
    /\ technical_indicators = << >>
    /\ top_performers = << >>
    /\ analyzed_stocks = << >>
    /\ analyzer_pc = "idle"

NoProfile == [stock_code |-> "none"]

IdleNews ==
    /\ news_items = << >>
    /\ sentiment_profile = NoProfile
    /\ news_pc = "idle"

\* a query that found no row
None == [found |-> FALSE]

NoRiskResult == [success |-> "none"]

IdleRisk ==
    /\ risk_user = None
    /\ risk_history = << >>
    /\ risk_portfolio = None
    /\ risk_result = NoRiskResult
    /\ risk_pc = "idle"

IdleSynth ==
    /\ synth_news = << >>
    /\ synth_recs = << >>
    /\ synth_pc = "idle"

NoAccount == [cash_balance |-> 0, portfolio_value |-> 0, total_invested |-> 0]

IdleAccount == account = NoAccount

IdleScrape ==
    /\ attempt = 0
    /\ attempts = << >>
    /\ scrape_result = << >>
    /\ scrape_pc = "idle"

IdleTools == IdleNews /\ IdleRisk /\ IdleSynth /\ IdleAccount /\ IdleScrape

IdleSide == IdleLedger /\ IdleReconcile /\ IdleAnalyzer /\ IdleTools

IdleAux == IdleEntry /\ IdleFan /\ IdleSide

Init ==
    /\ InitPipeline
    /\ old_recommendations = << >>
    /\ new_recommendations = << >>
    /\ changes = EmptyDelta
    /\ called = FALSE
    /\ IdleAux

\* outcomes a step may take: "ok", or one of the failures in F while the
\* failure budget lasts
Outcomes(r, F) == {"ok"} \cup (IF faults < MaxFaults THEN F ELSE {})

Count(r, o) == IF o = "ok" THEN faults ELSE faults + 1

\* ------------------------------------------------------ database queries
RECURSIVE ByDateDesc(_)
\* ORDER BY recommendation_date DESC: the rows of one submission, latest first
ByDateDesc(rows) ==
    IF rows = {} THEN << >>
    ELSE LET last == CHOOSE x \in rows : \A y \in rows : y.pos <= x.pos
         IN << last >> \o ByDateDesc(rows \ {last})

\* a query without the WHERE user_id filter: the latest submission of any
\* user; C7 tells it from get_user_previous_submission
get_latest_submission_of_anyone(user_id) ==
    LET mine == user_form_submissions
    IN IF mine = {} THEN 0
       ELSE (CHOOSE f \in mine : \A g \in mine : g.id <= f.id).id

\* get_user_previous_submissions(user_id)[0]: the id of the latest submission
\* of the user (ORDER BY submission_date DESC), 0 when there is none
get_user_previous_submission(user_id) ==
    LET mine == {f \in user_form_submissions : f.user_id = user_id}
    IN IF mine = {} THEN 0
       ELSE (CHOOSE f \in mine : \A g \in mine : g.id <= f.id).id

\* get_user_previous_recommendations(user_id, form_submission_id)
get_user_previous_recommendations(user_id, form_submission_id) ==
    ByDateDesc({h \in user_recommendations_history :
                   /\ h.user_id = user_id
                   /\ h.form_submission_id = form_submission_id})

\* ============================================================== run start
\* the steps of the run that have failed so far (history)
Failed(r, n, o) == IF o = "ok" THEN inputs[r].stage_failed ELSE inputs[r].stage_failed \cup {n}

\* run_workflow, steps 1 and 2: fetch the user's latest submission and its
\* recommendations (either query may fail and then yields []), build the
\* initial state and enter the graph.  `alone` makes the runs sequential.
StartRun(r, u, F, alone) ==
    /\ pc[r] = "idle"
    /\ started < MaxRuns
    /\ \A q \in Runs : q < r => pc[q] # "idle"
    /\ alone => \A q \in Runs : pc[q] = "idle"
    /\ started' = started + 1
    /\ \E o \in Outcomes(r, F) :
         LET form == IF o = "raise" THEN 0 ELSE get_user_previous_submission(u)
             recs == IF form = 0 \/ o = "fail" THEN << >>
                     ELSE get_user_previous_recommendations(u, form)
         IN /\ wf' = [wf EXCEPT ![r] = [NoLocals EXCEPT
                          !.user_id = u, !.prior = last_saved[u], !.previous_form = form,
                          !.previous_recommendations = recs]]
            /\ faults' = Count(r, o)
            /\ inputs' = [inputs EXCEPT ![r].stage_failed = Failed(r, "fetch_previous", o)]
    /\ state' = [state EXCEPT ![r] = initial_state]
    /\ pc' = [pc EXCEPT ![r] = Workflow[1]]
    /\ UNCHANGED << result, trace, marketTables, userTables, historyTables >>

\* a node whose exception leaves the graph: the run goes straight to its
\* result; C2 tells it from Advance
Advance_leaving_on_exception(r, n, o, st) ==
    /\ pc' = [pc EXCEPT ![r] = IF o = "raise" THEN "build_result"
                               ELSE IF next_node(n) = END THEN "compare"
                               ELSE next_node(n)]
    /\ state' = [state EXCEPT ![r] = st]
    /\ faults' = Count(r, o)
    /\ trace' = [trace EXCEPT ![r] = Append(@, n)]
    /\ UNCHANGED << wf, result, started >>

\* a node n of run r returns the state st after outcome o
Advance(r, n, o, st) ==
    /\ pc' = [pc EXCEPT ![r] = IF next_node(n) = END THEN "compare" ELSE next_node(n)]
    /\ state' = [state EXCEPT ![r] = st]
    /\ faults' = Count(r, o)
    /\ trace' = [trace EXCEPT ![r] = Append(@, n)]
    /\ UNCHANGED << wf, result, started >>

\* ================================================================== nodes
\* _scrape_stocks_node: the scraper's data (the stocks table is replaced by
\* it); the sample data when scrape_stocks_tool reports failure, which it does
\* with 'data': [] when nothing could be scraped; [] on an exception
scrape_stocks_node(r, F) ==
    /\ pc[r] = "scrape_stocks"
    /\ \E o \in Outcomes(r, F) :
        \E d \in (IF o = "ok" THEN LiveSnapshots
                  ELSE IF o = "fail" THEN {SampleData} ELSE {<< >>}) :
          /\ Advance(r, "scrape_stocks", o, [state[r] EXCEPT !.stock_data = d])
          /\ stocks' = IF o = "ok" THEN {d[i].code : i \in 1..Len(d)} ELSE stocks
          /\ inputs' = [inputs EXCEPT ![r].snapshot = d,
                                      ![r].source_empty = (o = "fail"),
                                      ![r].stage_failed = Failed(r, "scrape_stocks", o)]
    /\ UNCHANGED << stock_analysis_table, news_records, news_analysis_table,
                    userTables, historyTables >>

\* _analyze_stocks_node: nothing to do without data; else the analyzer's top
\* performers (the stock_analysis table is replaced by them), the mock
\* analysis when the analyzer reports failure, [] on an exception
analyze_stocks_node(r, F) ==
    /\ pc[r] = "analyze_stocks"
    /\ LET stock_data == state[r].stock_data
       IN \E o \in (IF stock_data = << >> THEN {"ok"} ELSE Outcomes(r, F)) :
            LET analysis == IF stock_data = << >> \/ o = "raise" THEN << >>
                            ELSE IF o = "fail" THEN create_mock_analysis(stock_data)
                            ELSE analyze_stocks_advanced_agentic(stock_data)
            IN /\ Advance(r, "analyze_stocks", o, [state[r] EXCEPT !.stock_analysis = analysis])
               /\ stock_analysis_table' =
                    IF stock_data # << >> /\ o = "ok"
                    THEN {[stock_code |-> analysis[i].stock_code, rank_position |-> i]
                             : i \in 1..Len(analysis)}
                    ELSE stock_analysis_table
               /\ inputs' = [inputs EXCEPT ![r].stage_failed = Failed(r, "analyze_stocks", o)]
    /\ UNCHANGED << stocks, news_records, news_analysis_table, userTables, historyTables >>

\* _scrape_news_node with scrape_top_companies_news: for the top five
\* companies, clear the news_records table, scrape each company and save its
\* articles; {} when the scraper fails
scrape_news_node(r, F) ==
    /\ pc[r] = "scrape_news"
    /\ LET top == Take(state[r].stock_analysis, TopN)
           symbols == {top[i].stock_code : i \in 1..Len(top)}
       IN \E o \in (IF top = << >> THEN {"ok"} ELSE Outcomes(r, F)) :
           \E feed \in (IF top # << >> /\ o = "ok" THEN NewsFeeds ELSE {"none"}) :
            LET scraped == [c \in symbols |-> scrape_company_news(feed, c)]
                news_data == IF top = << >> \/ o # "ok" THEN EmptyDict ELSE scraped
            IN /\ Advance(r, "scrape_news", o, [state[r] EXCEPT !.news_data = news_data])
               /\ news_records' =
                    IF top # << >> /\ o = "ok"
                    THEN UNION {scraped[c] : c \in symbols}
                    ELSE news_records
               /\ inputs' = [inputs EXCEPT ![r].feed = feed,
                                           ![r].stage_failed = Failed(r, "scrape_news", o)]
    /\ UNCHANGED << stocks, stock_analysis_table, news_analysis_table,
                    userTables, historyTables >>

\* _analyze_news_node with analyze_multiple_companies: every company that has
\* an entry in news_data is analysed from the rows the news_records table
\* holds for it; an analysis of at least one row replaces the company's row
\* in news_analysis
analyze_news_node(r, F) ==
    /\ pc[r] = "analyze_news"
    /\ LET news_data == state[r].news_data
       IN \E o \in (IF news_data = EmptyDict THEN {"ok"} ELSE Outcomes(r, F)) :
            LET analysed == [c \in DOMAIN news_data |-> analyze_company_news(news_records, c)]
                news_analysis == IF o = "ok" THEN analysed ELSE EmptyDict
                written == {c \in DOMAIN news_analysis : news_analysis[c].news_count > 0}
            IN /\ Advance(r, "analyze_news", o, [state[r] EXCEPT !.news_analysis = news_analysis])
               /\ news_analysis_table' =
                    {a \in news_analysis_table : a.stock_code \notin written}
                        \cup {news_analysis[c] : c \in written}
               /\ inputs' = [inputs EXCEPT ![r].stage_failed = Failed(r, "analyze_news", o)]
    /\ UNCHANGED << stocks, stock_analysis_table, news_records, userTables, historyTables >>

\* _check_risk_node: the profile, or {} when the checker fails or raises
check_risk_node(r, F) ==
    /\ pc[r] = "check_risk"
    /\ \E o \in Outcomes(r, F) :
         /\ Advance(r, "check_risk", o,
                    [state[r] EXCEPT !.risk_profile = IF o = "ok" THEN "risk_profile" ELSE "empty"])
         /\ inputs' = [inputs EXCEPT ![r].stage_failed = Failed(r, "check_risk", o)]
    /\ UNCHANGED << marketTables, userTables, historyTables >>

\* _check_past_investments_node
check_past_investments_node(r, F) ==
    /\ pc[r] = "check_past_investments"
    /\ \E o \in Outcomes(r, F) :
         /\ Advance(r, "check_past_investments", o,
                    [state[r] EXCEPT !.user_history = IF o = "ok" THEN "history_result" ELSE "empty"])
         /\ inputs' = [inputs EXCEPT ![r].stage_failed = Failed(r, "check_past_investments", o)]
    /\ UNCHANGED << marketTables, userTables, historyTables >>

\* _check_portfolio_node: the users of this model hold nothing, so a
\* successful check reports status new_user
check_portfolio_node(r, F) ==
    /\ pc[r] = "check_portfolio"
    /\ \E o \in Outcomes(r, F) :
         /\ Advance(r, "check_portfolio", o,
                    [state[r] EXCEPT !.portfolio_update = IF o = "ok" THEN "new_user" ELSE "empty"])
         /\ inputs' = [inputs EXCEPT ![r].stage_failed = Failed(r, "check_portfolio", o)]
    /\ UNCHANGED << marketTables, userTables, historyTables >>

\* _generate_recommendations_node with RecommendationAgent
\* .generate_recommendations: clear_recommendations() empties the
\* recommendations table, the new list is computed from the top five
\* profiles and saved for the user by save_recommendations_batch (which
\* creates the user row when it is missing)
generate_recommendations_node(r, F) ==
    /\ pc[r] = "generate_recommendations"
    /\ \E o \in Outcomes(r, F) :
         LET recs == IF o = "ok"
                     THEN generate_recommendations(state[r].stock_analysis,
                                                   state[r].news_analysis)
                     ELSE << >>
             u == wf[r].user_id
         IN /\ Advance(r, "generate_recommendations", o,
                       [state[r] EXCEPT !.recommendations = recs])
            /\ recommendations' =
                 IF o = "ok"
                 THEN {[user_id |-> u, stock_code |-> recs[i].stock_code,
                        recommendation_type |-> recs[i].recommendation_type,
                        confidence_score |-> recs[i].confidence_score]
                          : i \in 1..Len(recs)}
                 ELSE recommendations
            /\ users' = IF o = "ok" /\ recs # << >> THEN users \cup {u} ELSE users
            /\ inputs' = [inputs EXCEPT ![r].stage_failed = Failed(r, "generate_recommendations", o)]
    /\ UNCHANGED << marketTables, historyTables >>

\* _handle_user_decision_node: the requests of this model carry no
\* user_decisions, so the node reports no_decisions (error on an exception)
handle_user_decision_node(r, F) ==
    /\ pc[r] = "handle_user_decision"
    /\ \E o \in Outcomes(r, F \cap {"raise"}) :
         /\ Advance(r, "handle_user_decision", o,
                    [state[r] EXCEPT !.user_decision_results =
                                        IF o = "ok" THEN "no_decisions" ELSE "error"])
         /\ inputs' = [inputs EXCEPT ![r].stage_failed = Failed(r, "handle_user_decision", o)]
    /\ UNCHANGED << marketTables, userTables, historyTables >>

\* ============================================ run_workflow after the graph
\* a diff step whose failure ends the run without the save; C10 tells it from
\* Compare
Compare_blocking_save(r, F) ==
    /\ pc[r] = "compare"
    /\ LET new == state[r].recommendations
           old == wf[r].previous_recommendations
       IN \E o \in (IF old = << >> THEN {"ok"} ELSE Outcomes(r, F \cap {"raise"})) :
            /\ wf' = [wf EXCEPT ![r].new_recommendations = new,
                                ![r].compared = (old # << >>),
                                ![r].comparison_summary =
                                    IF old = << >> THEN EmptyDict
                                    ELSE IF o = "raise" THEN EmptyDelta
                                    ELSE compare_recommendations(old, new)]
            /\ faults' = Count(r, o)
            /\ inputs' = [inputs EXCEPT ![r].stage_failed = Failed(r, "compare", o)]
            /\ pc' = [pc EXCEPT ![r] = IF o = "raise" THEN "build_result" ELSE "save_form"]
    /\ UNCHANGED << state, result, started, trace, marketTables, userTables, historyTables >>

\* steps 4 and 5: take the new recommendations from the final state and, when
\* there are previous ones, compare (compare_recommendations answers the
\* four empty lists when it raises inside)
Compare(r, F) ==
    /\ pc[r] = "compare"
    /\ LET new == state[r].recommendations
           old == wf[r].previous_recommendations
       IN \E o \in (IF old = << >> THEN {"ok"} ELSE Outcomes(r, F \cap {"raise"})) :
            /\ wf' = [wf EXCEPT ![r].new_recommendations = new,
                                ![r].compared = (old # << >>),
                                ![r].comparison_summary =
                                    IF old = << >> THEN EmptyDict
                                    ELSE IF o = "raise" THEN EmptyDelta
                                    ELSE compare_recommendations(old, new)]
            /\ faults' = Count(r, o)
            /\ inputs' = [inputs EXCEPT ![r].stage_failed = Failed(r, "compare", o)]
    /\ pc' = [pc EXCEPT ![r] = "save_form"]
    /\ UNCHANGED << state, result, started, trace, marketTables, userTables, historyTables >>

\* save_user_form_submission, first statement: INSERT INTO
\* user_form_submissions, committed on its own by execute_query.  An error
\* is caught and the function returns False.
SaveForm(r, F) ==
    /\ pc[r] = "save_form"
    /\ \E o \in Outcomes(r, F \cap {"raise"}) :
         /\ faults' = Count(r, o)
         /\ IF o = "ok"
            THEN /\ auto_increment' = auto_increment + 1
                 /\ user_form_submissions' = user_form_submissions \cup
                        {[id |-> auto_increment + 1, user_id |-> wf[r].user_id,
                          recommendations_count |-> Len(wf[r].new_recommendations)]}
                 /\ wf' = [wf EXCEPT ![r].save_attempted = TRUE,
                                     ![r].inserted_id = auto_increment + 1]
                 /\ last_saved' = [last_saved EXCEPT ![wf[r].user_id] = auto_increment + 1]
                 /\ pc' = [pc EXCEPT ![r] = "save_form_id"]
            ELSE /\ UNCHANGED << auto_increment, user_form_submissions, last_saved >>
                 /\ wf' = [wf EXCEPT ![r].save_attempted = TRUE, ![r].saved = FALSE]
                 /\ pc' = [pc EXCEPT ![r] = "build_result"]
    /\ UNCHANGED << state, result, started, trace, inputs, marketTables, userTables,
                    user_recommendations_history >>

\* what SELECT LAST_INSERT_ID() returns on the connection execute_query takes
\* for it: the id just inserted when the session is the one that inserted, 0
\* on any other session
LastInsertIds(r) == {wf[r].inserted_id, 0}

\* save_user_form_submission, second statement: SELECT LAST_INSERT_ID() on a
\* connection of its own; `if form_id:` skips the recommendations when it is 0
SaveFormId(r, F) ==
    /\ pc[r] = "save_form_id"
    /\ \E o \in Outcomes(r, F \cap {"raise"}) :
        \E form_id \in (IF o = "ok" THEN LastInsertIds(r) ELSE {0}) :
         /\ faults' = Count(r, o)
         /\ wf' = [wf EXCEPT ![r].form_id = form_id,
                             ![r].saved = (o = "ok" /\ form_id = 0)]
         /\ pc' = [pc EXCEPT ![r] = IF o = "ok" /\ form_id # 0 THEN "save_recs"
                                    ELSE "build_result"]
    /\ UNCHANGED << state, result, started, trace, inputs, marketTables, userTables, historyTables >>

\* save_user_form_submission, the loop: one INSERT INTO
\* user_recommendations_history per recommendation, each committed on its
\* own; the first k succeed, and when k is not all of them the next one
\* raises and the function returns False
SaveRecs(r, F) ==
    /\ pc[r] = "save_recs"
    /\ LET recs == wf[r].new_recommendations
       IN \E k \in 0..Len(recs) :
            /\ k < Len(recs) => "raise" \in Outcomes(r, F)
            /\ user_recommendations_history' = user_recommendations_history \cup
                   {[user_id |-> wf[r].user_id, form_submission_id |-> wf[r].form_id,
                     stock_code |-> recs[i].stock_code,
                     recommendation_type |-> recs[i].recommendation_type,
                     confidence_score |-> recs[i].confidence_score,
                     pos |-> i] : i \in 1..k}
            /\ wf' = [wf EXCEPT ![r].saved = (k = Len(recs)), ![r].rows_saved = k]
            /\ faults' = IF k < Len(recs) THEN faults + 1 ELSE faults
    /\ pc' = [pc EXCEPT ![r] = "build_result"]
    /\ UNCHANGED << state, result, started, trace, inputs, marketTables, userTables,
                    user_form_submissions, auto_increment, last_saved >>

\* run_workflow, step 7: the value save_user_form_submission returned is not
\* looked at; the result is built with success True
BuildResult(r) ==
    /\ pc[r] = "build_result"
    /\ result' = [result EXCEPT ![r] =
          [success |-> TRUE,
           stock_analysis |-> state[r].stock_analysis,
           news_analysis |-> state[r].news_analysis,
           risk_profile |-> state[r].risk_profile,
           user_history |-> state[r].user_history,
           portfolio_update |-> state[r].portfolio_update,
           recommendations |-> wf[r].new_recommendations,
           previous_form |-> wf[r].previous_form,
           previous_recommendations |-> wf[r].previous_recommendations,
           recommendation_changes |-> wf[r].comparison_summary]]
    /\ state' = [state EXCEPT ![r] = initial_state]
    /\ pc' = [pc EXCEPT ![r] = "done"]
    /\ UNCHANGED << wf, started, faults, trace, inputs, marketTables, userTables, historyTables >>

\* the caller (an API route) sends the result as the response; the locals of
\* the finished run are gone and the thread takes the next request
Respond(r) ==
    /\ pc[r] = "done"
    /\ pc' = [pc EXCEPT ![r] = "idle"]
    /\ wf' = [wf EXCEPT ![r] = NoLocals]
    /\ result' = [result EXCEPT ![r] = NoResult]
    /\ trace' = [trace EXCEPT ![r] = << >>]
    /\ inputs' = [inputs EXCEPT ![r] = NoInputs]
    /\ UNCHANGED << state, started, faults, marketTables, userTables, historyTables >>

\* ========================================================= specifications
AllFailures == {"fail", "raise"}

\* runs one after the other, any step may fail
Next ==
  /\ UNCHANGED << diffVars, auxVars >>
  /\ \E r \in Runs :
        \/ \E u \in Users : StartRun(r, u, AllFailures, TRUE)
        \/ scrape_stocks_node(r, AllFailures)
        \/ analyze_stocks_node(r, AllFailures)
        \/ scrape_news_node(r, AllFailures)
        \/ analyze_news_node(r, AllFailures)
        \/ check_risk_node(r, AllFailures)
        \/ check_past_investments_node(r, AllFailures)
        \/ check_portfolio_node(r, AllFailures)
        \/ generate_recommendations_node(r, AllFailures)
        \/ handle_user_decision_node(r, AllFailures)
        \/ Compare(r, AllFailures)
        \/ SaveForm(r, AllFailures)
        \/ SaveFormId(r, AllFailures)
        \/ SaveRecs(r, AllFailures)
        \/ BuildResult(r)
        \/ Respond(r)

Spec == Init /\ [][Next]_vars

\* runs of several threads interleaved node by node, nothing fails
NoFailures == {}

NextConcurrent ==
  /\ UNCHANGED << diffVars, auxVars >>
  /\ \E r \in Runs :
        \/ \E u \in Users : StartRun(r, u, NoFailures, FALSE)
        \/ scrape_stocks_node(r, NoFailures)
        \/ analyze_stocks_node(r, NoFailures)
        \/ scrape_news_node(r, NoFailures)
        \/ analyze_news_node(r, NoFailures)
        \/ check_risk_node(r, NoFailures)
        \/ check_past_investments_node(r, NoFailures)
        \/ check_portfolio_node(r, NoFailures)
        \/ generate_recommendations_node(r, NoFailures)
        \/ handle_user_decision_node(r, NoFailures)
        \/ Compare(r, NoFailures)
        \/ SaveForm(r, NoFailures)
        \/ SaveFormId(r, NoFailures)
        \/ SaveRecs(r, NoFailures)
        \/ BuildResult(r)
        \/ Respond(r)

SpecConcurrent == Init /\ [][NextConcurrent]_vars

\* ------------------------------- compare_recommendations called on its own
MaxRecs == 2

DiffCodes == << "HBL", "OGDC", "UBL" >>
DiffTypes == {"buy", "hold"}
DiffConfidences == {600, 650, 700, 750}

\* the recommendation lists over at most MaxRecs symbols, one record a symbol
RecLists ==
    UNION { LET codes == SelectSeq(DiffCodes, LAMBDA c : c \in S)
            IN { [i \in 1..Len(codes) |->
                     Recommendation(codes[i], f[codes[i]][1], f[codes[i]][2])]
                 : f \in [S -> DiffTypes \X DiffConfidences] }
          : S \in {T \in SUBSET Range(DiffCodes) : Cardinality(T) <= MaxRecs} }

InitDiff ==
    /\ InitPipeline
    /\ old_recommendations \in RecLists
    /\ new_recommendations \in RecLists
    /\ changes = EmptyDelta
    /\ called = FALSE
    /\ IdleAux

CallCompare ==
    /\ ~called
    /\ called' = TRUE
    /\ changes' = compare_recommendations(old_recommendations, new_recommendations)
    /\ UNCHANGED << old_recommendations, new_recommendations,
                    runVars, marketTables, userTables, historyTables, auxVars >>

NextDiff == CallCompare

SpecDiff == InitDiff /\ [][NextDiff]_vars

\* ------------------------------------------------- requests and validation
\* InputTakerAgent.__init__: the enumerated domains
supported_sectors ==
    {"Banking", "Technology", "Energy", "Healthcare", "Consumer Goods", "Real Estate",
     "Manufacturing", "Telecommunications", "Transportation", "Utilities", "Any"}
risk_levels == {"low", "moderate", "high"}
time_horizons == {"short", "medium", "long"}
investment_goals == {"growth", "income", "balanced", "conservative"}

\* the preferences a client sends: all fields in their domains, or one field
\* outside its domain (budget and target_profit are in range, the strings
\* lower case)
ValidInput ==
    [sector_preference |-> "Any", risk_tolerance |-> "moderate",
     time_horizon |-> "medium", investment_goal |-> "growth"]

UserInputs ==
    { ValidInput,
      [ValidInput EXCEPT !.sector_preference = "Casino"],
      [ValidInput EXCEPT !.risk_tolerance = "extreme"],
      [ValidInput EXCEPT !.time_horizon = "forever"],
      [ValidInput EXCEPT !.investment_goal = "gamble"] }

\* InputTakerAgent.validate_user_input: the first field out of its domain
\* gives the error
validate_user_input(form_data) ==
    IF form_data.sector_preference \notin supported_sectors
    THEN [valid |-> FALSE, error |-> "Unsupported sector"]
    ELSE IF form_data.risk_tolerance \notin risk_levels
    THEN [valid |-> FALSE, error |-> "Invalid risk tolerance"]
    ELSE IF form_data.time_horizon \notin time_horizons
    THEN [valid |-> FALSE, error |-> "Invalid time horizon"]
    ELSE IF form_data.investment_goal \notin investment_goals
    THEN [valid |-> FALSE, error |-> "Invalid investment goal"]
    ELSE [valid |-> TRUE, error |-> "none"]

Received(r, path, user_input, response) ==
    request' = [request EXCEPT ![r] =
                   [path |-> path, user_input |-> user_input, response |-> response]]

\* POST /recommendations: user_input goes to run_workflow as it came
get_recommendations(r) ==
    \E u \in Users, user_input \in UserInputs :
        /\ StartRun(r, u, NoFailures, TRUE)
        /\ Received(r, "/recommendations", user_input, "pending")
        /\ UNCHANGED << diffVars, fanVars, sideVars >>

\* POST /api/hybrid: user_input goes to run_workflow as it came
hybrid(r) ==
    \E u \in Users, user_input \in UserInputs :
        /\ StartRun(r, u, NoFailures, TRUE)
        /\ Received(r, "/api/hybrid", user_input, "pending")
        /\ UNCHANGED << diffVars, fanVars, sideVars >>

\* InputTakerAgent.process_user_input: validate, then run_workflow; invalid
\* input is answered with "Invalid input provided"
process_user_input(r) ==
    \E u \in Users, form_data \in UserInputs :
        IF validate_user_input(form_data).valid
        THEN /\ StartRun(r, u, NoFailures, TRUE)
             /\ Received(r, "process_user_input", form_data, "pending")
             /\ UNCHANGED << diffVars, fanVars, sideVars >>
        ELSE /\ \A q \in Runs : pc[q] = "idle"
             /\ r = 1
             /\ started < MaxRuns
             /\ started' = started + 1
             /\ Received(r, "process_user_input", form_data, "Invalid input provided")
             /\ UNCHANGED << pc, wf, state, result, faults, trace, inputs,
                             marketTables, userTables, historyTables, diffVars, fanVars, sideVars >>

\* the run of a request, step by step, nothing fails
RunStep(r) ==
    /\ \/ scrape_stocks_node(r, NoFailures)
       \/ analyze_stocks_node(r, NoFailures)
       \/ scrape_news_node(r, NoFailures)
       \/ analyze_news_node(r, NoFailures)
       \/ check_risk_node(r, NoFailures)
       \/ check_past_investments_node(r, NoFailures)
       \/ check_portfolio_node(r, NoFailures)
       \/ generate_recommendations_node(r, NoFailures)
       \/ handle_user_decision_node(r, NoFailures)
       \/ Compare(r, NoFailures)
       \/ SaveForm(r, NoFailures)
       \/ SaveFormId(r, NoFailures)
       \/ SaveRecs(r, NoFailures)
       \/ BuildResult(r)
    /\ UNCHANGED << diffVars, auxVars >>

\* the entry point returns the result of the run to the client
send_response(r) ==
    /\ Respond(r)
    /\ request' = [request EXCEPT ![r] = NoRequest]
    /\ UNCHANGED << diffVars, fanVars, sideVars >>

NextEntry ==
    \E r \in Runs :
        \/ get_recommendations(r)
        \/ hybrid(r)
        \/ process_user_input(r)
        \/ RunStep(r)
        \/ send_response(r)

SpecEntry == Init /\ [][NextEntry]_vars

\* ------------------------------ analyze_multiple_companies called on its own
MaxSymbols == 2

FanCodes == {"HBL", "OGDC", "UBL"}

\* the lists of at most MaxSymbols different companies
CodeLists ==
    {q \in UNION {[1..n -> FanCodes] : n \in 0..MaxSymbols} :
        \A i, j \in 1..Len(q) : i # j => q[i] # q[j]}

\* a news_records table: per company a positive and a negative article, each
\* stored or not
NewsTables ==
    SUBSET ({Article(c, 1, "positive") : c \in FanCodes}
                \cup {Article(c, 2, "negative") : c \in {"HBL"}})

\* the result every except branch of the analyzer builds
NeutralResult(code) == NewsAnalysisResult(code, "neutral", 0, 0)

\* a loop in which a company's exception empties the batch; C13 tells it from
\* await_task
await_task_failing_batch(res, table, code, o) ==
    IF o = "raise" THEN << >>
    ELSE [c \in DOMAIN res \cup {code} |->
             IF c = code THEN analyze_company_news(table, code) ELSE res[c]]

\* one turn of the loop of analyze_multiple_companies: await the task of
\* `code` and store its result; an exception inside analyze_company_news or
\* at the await gives the company the neutral result
await_task(res, table, code, o) ==
    LET analysis == IF o = "raise" THEN NeutralResult(code)
                    ELSE analyze_company_news(table, code)
    IN [c \in DOMAIN res \cup {code} |-> IF c = code THEN analysis ELSE res[c]]

InitFanOut ==
    /\ InitPipeline
    /\ old_recommendations = << >>
    /\ new_recommendations = << >>
    /\ changes = EmptyDelta
    /\ called = FALSE
    /\ IdleEntry
    /\ IdleSide
    /\ stock_codes \in CodeLists
    /\ news_rows \in NewsTables
    /\ tasks_awaited = 0
    /\ results = << >>
    /\ task_failed = {}
    /\ fan_pc = "awaiting"
    /\ cancel_at = -1

NotFan == << runVars, marketTables, userTables, historyTables, diffVars, entryVars, sideVars >>

AwaitTask ==
    /\ fan_pc = "awaiting"
    /\ tasks_awaited < Len(stock_codes)
    /\ \E o \in {"ok", "raise"} :
         LET code == stock_codes[tasks_awaited + 1]
         IN /\ results' = await_task(results, news_rows, code, o)
            /\ task_failed' = IF o = "raise" THEN task_failed \cup {code} ELSE task_failed
    /\ tasks_awaited' = tasks_awaited + 1
    /\ UNCHANGED << stock_codes, news_rows, fan_pc, cancel_at, NotFan >>

ReturnResults ==
    /\ fan_pc = "awaiting"
    /\ tasks_awaited = Len(stock_codes)
    /\ fan_pc' = "returned"
    /\ UNCHANGED << stock_codes, news_rows, tasks_awaited, results, task_failed,
                    cancel_at, NotFan >>

NextFanOut == AwaitTask \/ ReturnResults

SpecFanOut == InitFanOut /\ [][NextFanOut]_vars

\* The run's asyncio task is cancelled while the loop is at work.  The tasks
\* are coroutines awaited one after the other and none of them suspends
\* (their database calls are synchronous), so the request is pending until
\* the run next suspends, which is after analyze_multiple_companies returned.
Cancel ==
    /\ fan_pc = "awaiting"
    /\ cancel_at = -1
    /\ tasks_awaited < Len(stock_codes)
    /\ cancel_at' = tasks_awaited
    /\ UNCHANGED << stock_codes, news_rows, tasks_awaited, results, task_failed,
                    fan_pc, NotFan >>

\* CancelledError is raised in the run at its next suspension point; no
\* except clause of the run handles it and the results are dropped with it
DeliverCancel ==
    /\ fan_pc = "returned"
    /\ cancel_at # -1
    /\ fan_pc' = "cancelled"
    /\ UNCHANGED << stock_codes, news_rows, tasks_awaited, results, task_failed,
                    cancel_at, NotFan >>

NextCancel == AwaitTask \/ ReturnResults \/ Cancel \/ DeliverCancel

SpecCancel == InitFanOut /\ [][NextCancel]_vars

\* ------------------------------------------------------ the decision ledger
\* Money is counted in hundredths of a rupee, the scale of the DECIMAL(.,2)
\* columns of table investments.
MaxDecisions == 3

\* the stocks table the ledger finds, and the codes a decision may name
LedgerStocks == {"HBL", "OGDC"}
DecisionCodes == LedgerStocks \cup {"ZZZ"}
\* the share counts a decision may carry; 0 stands for a missing quantity
Quantities == {0, 1, 2}

\* the price of a decision as the JSON body gave it: an integer or a float
DecisionPrices ==
    { [amount |-> 1000, is_float |-> FALSE],
      [amount |-> 1100, is_float |-> FALSE],
      [amount |-> 1050, is_float |-> TRUE] }

\* a / b as a DECIMAL(.,2) column stores it: rounded to the nearest
\* hundredth, halves away from zero (a >= 0, b > 0)
Decimal2(a, b) == (2 * a + b) \div (2 * b)

RECURSIVE Sum(_)
Sum(s) == IF s = << >> THEN 0 ELSE Head(s) + Sum(Tail(s))

\* SELECT SUM(field) over the rows whose ids are in keep
SumOver(rows, keep, field) ==
    Sum([i \in 1..Len(rows) |-> IF i \in keep THEN rows[i][field] ELSE 0])

\* SELECT COUNT(*) over the rows of a status
CountStatus(rows, status) == Cardinality({i \in 1..Len(rows) : rows[i].status = status})

\* _get_existing_investment: the id of the latest active row of the stock,
\* 0 when there is none
_get_existing_investment(rows, stock_code) ==
    LET found == {i \in 1..Len(rows) :
                     rows[i].stock_code = stock_code /\ rows[i].status = "active"}
    IN IF found = {} THEN 0 ELSE CHOOSE i \in found : \A j \in found : j <= i

\* UPDATE investments SET columns WHERE stock_code = ... AND status = 'active'
UpdateActive(rows, stock_code, columns) ==
    [i \in 1..Len(rows) |->
        IF rows[i].stock_code = stock_code /\ rows[i].status = "active"
        THEN [c \in DOMAIN rows[i] |->
                 IF c \in DOMAIN columns THEN columns[c] ELSE rows[i][c]]
        ELSE rows[i]]

_create_new_investment(rows, stock_code, quantity, price) ==
    Append(rows, [stock_code |-> stock_code, quantity |-> quantity,
                  buy_price |-> price, total_invested |-> quantity * price,
                  current_quantity |-> quantity, current_value |-> quantity * price,
                  status |-> "active"])

\* new_avg_price is new_total_invested / new_quantity, unrounded; the columns
\* round buy_price and new_quantity * new_avg_price to hundredths
_update_existing_investment(rows, stock_code, new_quantity, avg_num, avg_den, new_total_invested) ==
    UpdateActive(rows, stock_code,
        [current_quantity |-> new_quantity,
         buy_price |-> Decimal2(avg_num, avg_den),
         total_invested |-> new_total_invested,
         current_value |-> Decimal2(new_quantity * avg_num, avg_den)])

_mark_investment_sold(rows, stock_code) ==
    UpdateActive(rows, stock_code,
        [current_quantity |-> 0, current_value |-> 0, status |-> "sold"])

\* the status column is ENUM('active','sold','partial_sold','pending',
\* 'cancelled'): a session in strict mode refuses any other value, one that
\* is not stores the empty string in its place
StatusEnum == {"active", "sold", "partial_sold", "pending", "cancelled"}

_update_investment_status(rows, stock_code, status) ==
    UpdateActive(rows, stock_code,
        [status |-> IF status \in StatusEnum THEN status ELSE ""])

_create_pending_investment(rows, stock_code) ==
    Append(rows, [stock_code |-> stock_code, quantity |-> 0, buy_price |-> 0,
                  total_invested |-> 0, current_quantity |-> 0, current_value |-> 0,
                  status |-> "pending"])

\* _calculate_portfolio_data: the sums run over every row of the user
_calculate_portfolio_data(rows) ==
    [total_invested |-> SumOver(rows, 1..Len(rows), "total_invested"),
     total_value |-> SumOver(rows, 1..Len(rows), "current_value"),
     total_stocks_held |-> Len(rows),
     active_investments |-> CountStatus(rows, "active")]

\* PortfolioManager.update_portfolio_snapshot: the sums run over the rows
\* with shares left
update_portfolio_snapshot(rows) ==
    LET held == {i \in 1..Len(rows) : rows[i].current_quantity > 0}
    IN [total_invested |-> SumOver(rows, held, "total_invested"),
        total_value |-> SumOver(rows, held, "current_value"),
        total_stocks_held |-> Cardinality(held),
        active_investments |-> Cardinality(held)]

\* the ledger of one user over a stocks table holding LedgerStocks; the
\* session's sql_mode is fixed by the deployment
InitLedger ==
    /\ pc = [r \in Runs |-> "idle"]
    /\ wf = [r \in Runs |-> NoLocals]
    /\ state = [r \in Runs |-> initial_state]
    /\ result = [r \in Runs |-> NoResult]
    /\ started = 0
    /\ faults = 0
    /\ trace = [r \in Runs |-> << >>]
    /\ inputs = [r \in Runs |-> NoInputs]
    /\ stocks = LedgerStocks
    /\ stock_analysis_table = {}
    /\ news_records = {}
    /\ news_analysis_table = {}
    /\ recommendations = {}
    /\ users = {}
    /\ user_form_submissions = {}
    /\ user_recommendations_history = {}
    /\ auto_increment = 0
    /\ last_saved = [u \in Users |-> 0]
    /\ old_recommendations = << >>
    /\ new_recommendations = << >>
    /\ changes = EmptyDelta
    /\ called = FALSE
    /\ IdleEntry
    /\ IdleFan
    /\ IdleReconcile
    /\ IdleAnalyzer
    /\ IdleTools
    /\ sql_mode \in {"strict", "not_strict"}
    /\ investments = << >>
    /\ portfolios = << >>
    /\ decisions = 0
    /\ decision = NoDecision
    /\ outcome = "none"

NotLedger ==
    << runVars, marketTables, userTables, historyTables, diffVars, entryVars, fanVars,
       reconcileVars, analyzerVars, toolVars >>

\* the handler answered: error answers leave the tables as they were
Answered(decision_type, stock_code, quantity, answer) ==
    /\ decisions < MaxDecisions
    /\ decisions' = decisions + 1
    /\ decision' = [decision_type |-> decision_type, stock_code |-> stock_code,
                    quantity |-> quantity]
    /\ outcome' = answer
    /\ UNCHANGED << sql_mode, NotLedger >>

Rejected(decision_type, stock_code, quantity) ==
    /\ Answered(decision_type, stock_code, quantity, "error")
    /\ UNCHANGED << investments, portfolios >>

\* the tables after a decision went through; _update_portfolio_snapshot
\* inserts the snapshot, which is then the latest
Recorded(decision_type, stock_code, quantity, rows) ==
    /\ Answered(decision_type, stock_code, quantity, "success")
    /\ investments' = rows
    /\ portfolios' = << _calculate_portfolio_data(rows) >>

\* existing['total_invested'] is a Decimal: adding a float amount to it
\* raises TypeError, which the handler answers as an error
_handle_buy_decision ==
    \E stock_code \in DecisionCodes, quantity \in Quantities, price \in DecisionPrices :
        LET existing == _get_existing_investment(investments, stock_code)
            new_quantity == investments[existing].current_quantity + quantity
            new_total_invested ==
                investments[existing].total_invested + quantity * price.amount
        IN IF quantity = 0 \/ stock_code \notin stocks
           THEN Rejected("buy", stock_code, quantity)
           ELSE IF existing = 0
           THEN Recorded("buy", stock_code, quantity,
                    _create_new_investment(investments, stock_code, quantity, price.amount))
           ELSE IF price.is_float
           THEN Rejected("buy", stock_code, quantity)
           ELSE Recorded("buy", stock_code, quantity,
                    _update_existing_investment(investments, stock_code, new_quantity,
                        new_total_invested, new_quantity, new_total_invested))

\* _handle_sell_decision without its check of the shares held
_handle_sell_decision_unchecked ==
    \E stock_code \in DecisionCodes, quantity \in Quantities, price \in DecisionPrices :
        LET existing == _get_existing_investment(investments, stock_code)
            current_quantity == investments[existing].current_quantity
            total_invested == investments[existing].total_invested
            new_quantity == current_quantity - quantity
            new_total_invested == Decimal2(total_invested * new_quantity, current_quantity)
        IN IF quantity = 0 \/ existing = 0
           THEN Rejected("sell", stock_code, quantity)
           ELSE IF price.is_float
           THEN Rejected("sell", stock_code, quantity)
           ELSE IF new_quantity = 0
           THEN Recorded("sell", stock_code, quantity,
                    _mark_investment_sold(investments, stock_code))
           ELSE Recorded("sell", stock_code, quantity,
                    _update_existing_investment(investments, stock_code, new_quantity,
                        total_invested, current_quantity, new_total_invested))

\* price - avg_buy_price mixes a float with a Decimal in the same way
_handle_sell_decision ==
    \E stock_code \in DecisionCodes, quantity \in Quantities, price \in DecisionPrices :
        LET existing == _get_existing_investment(investments, stock_code)
            current_quantity == investments[existing].current_quantity
            total_invested == investments[existing].total_invested
            new_quantity == current_quantity - quantity
            new_total_invested == Decimal2(total_invested * new_quantity, current_quantity)
        IN IF quantity = 0 \/ existing = 0
           THEN Rejected("sell", stock_code, quantity)
           ELSE IF current_quantity < quantity \/ price.is_float
           THEN Rejected("sell", stock_code, quantity)
           ELSE IF new_quantity = 0
           THEN Recorded("sell", stock_code, quantity,
                    _mark_investment_sold(investments, stock_code))
           ELSE Recorded("sell", stock_code, quantity,
                    _update_existing_investment(investments, stock_code, new_quantity,
                        total_invested, current_quantity, new_total_invested))

_handle_hold_decision ==
    \E stock_code \in DecisionCodes :
        IF _get_existing_investment(investments, stock_code) = 0 \/ sql_mode = "strict"
        THEN Rejected("hold", stock_code, 0)
        ELSE Recorded("hold", stock_code, 0,
                 _update_investment_status(investments, stock_code, "hold"))

\* the row's transaction_type 'pending' is outside the column's ENUM as
\* well; no snapshot is taken
_handle_pending_decision ==
    \E stock_code \in DecisionCodes :
        IF stock_code \notin stocks \/ sql_mode = "strict"
        THEN Rejected("pending", stock_code, 0)
        ELSE /\ Answered("pending", stock_code, 0, "success")
             /\ investments' = _create_pending_investment(investments, stock_code)
             /\ UNCHANGED portfolios

\* PortfolioManager._handle_sell_transaction: works on the rows with shares
\* left, whatever their status; the query names no order, so the row it
\* reads first is any of them
_handle_sell_transaction ==
    \E stock_code \in DecisionCodes, quantity \in Quantities \ {0}, price \in DecisionPrices :
        LET held == {i \in 1..Len(investments) :
                        /\ investments[i].stock_code = stock_code
                        /\ investments[i].current_quantity > 0}
        IN IF held = {}
           THEN Rejected("sell_transaction", stock_code, quantity)
           ELSE \E i \in held :
                  LET current_quantity == investments[i].current_quantity
                      new_quantity == current_quantity - quantity
                      status == IF new_quantity = 0 THEN "sold" ELSE "partial_sold"
                      rows == [j \in 1..Len(investments) |->
                                 IF j \in held
                                 THEN [investments[j] EXCEPT
                                         !.current_quantity = new_quantity,
                                         !.current_value = new_quantity * price.amount,
                                         !.status = status]
                                 ELSE investments[j]]
                  IN IF quantity > current_quantity
                     THEN Rejected("sell_transaction", stock_code, quantity)
                     ELSE /\ Answered("sell_transaction", stock_code, quantity, "success")
                          /\ investments' = rows
                          /\ portfolios' = << update_portfolio_snapshot(rows) >>

NextLedger ==
    \/ _handle_buy_decision
    \/ _handle_sell_decision
    \/ _handle_hold_decision
    \/ _handle_pending_decision
    \/ _handle_sell_transaction

SpecLedger == InitLedger /\ [][NextLedger]_vars

\* ------------------------------------------- check_portfolio in a run
MaxHoldings == 2

\* python  d.get(key, default)
Get(d, key, default) == IF key \in DOMAIN d THEN d[key] ELSE default

\* rows of table investments as the ledger leaves them: bought at 10.00,
\* sold out or with shares left, which may differ from the shares first bought
InvestmentRow(stock_code, quantity, current_quantity) ==
    [stock_code |-> stock_code, quantity |-> quantity, buy_price |-> 1000,
     total_invested |-> current_quantity * 1000,
     current_quantity |-> current_quantity,
     current_value |-> current_quantity * 1000,
     status |-> IF current_quantity = 0 THEN "sold" ELSE "active"]

InvestmentRows ==
    {InvestmentRow(c, q, k) : c \in {"HBL", "OGDC"}, q \in {1, 2}, k \in {1, 2}}
        \cup {InvestmentRow(c, 1, 0) : c \in {"HBL", "OGDC"}}

InvestmentTables ==
    UNION {[1..n -> InvestmentRows] : n \in 0..MaxHoldings}

\* a market record of the run's snapshot
MarketRecord(code, close_price) == [code |-> code, close_price |-> close_price]

MarketSnapshots ==
    { << >>,
      << MarketRecord("HBL", 1200) >>,
      << MarketRecord("UBL", 900) >>,
      << MarketRecord("UBL", 900), MarketRecord("HBL", 1200) >> }

\* analyze_stocks_advanced_agentic: the entry made of a market record
analysis_dict(stock) ==
    [stock_code |-> stock.code, current_price |-> stock.close_price]

\* get_user_investments: the active rows, latest first
RECURSIVE get_user_investments(_)
get_user_investments(rows) ==
    IF rows = << >> THEN << >>
    ELSE LET rest == get_user_investments(SubSeq(rows, 1, Len(rows) - 1))
             last == rows[Len(rows)]
         IN IF last.status = "active" THEN << last >> \o rest ELSE rest

\* the for loop over stock_data: the first entry whose 'code' is the
\* holding's stock_code gives its 'close_price', no such entry buy_price
RECURSIVE find_current_price(_, _, _)
find_current_price(stock_data, stock_code, buy_price) ==
    IF stock_data = << >> THEN buy_price
    ELSE IF Get(Head(stock_data), "code", "None") = stock_code
    THEN Get(Head(stock_data), "close_price", buy_price)
    ELSE find_current_price(Tail(stock_data), stock_code, buy_price)

\* PortfolioChecker._update_portfolio_values
_update_portfolio_values(user_investments, stock_data) ==
    [i \in 1..Len(user_investments) |->
        LET investment == user_investments[i]
            current_price == find_current_price(stock_data, investment.stock_code,
                                                investment.buy_price)
            current_value == investment.quantity * current_price
        IN [stock_code |-> investment.stock_code,
            quantity |-> investment.quantity,
            buy_price |-> investment.buy_price,
            current_price |-> current_price,
            total_invested |-> investment.total_invested,
            current_value |-> current_value,
            profit_loss |-> current_value - investment.total_invested]]

\* PortfolioChecker.check_portfolio: a user without a portfolios row or
\* without active investments is a new user
check_portfolio(portfolio, rows, stock_data) ==
    LET user_investments == get_user_investments(rows)
    IN IF portfolio = << >> \/ user_investments = << >>
       THEN [status |-> "new_user", updated_holdings |-> << >>]
       ELSE [status |-> "existing_user",
             updated_holdings |-> _update_portfolio_values(user_investments, stock_data)]

InitReconcile ==
    /\ InitPipeline
    /\ old_recommendations = << >>
    /\ new_recommendations = << >>
    /\ changes = EmptyDelta
    /\ called = FALSE
    /\ IdleEntry
    /\ IdleFan
    /\ IdleAnalyzer
    /\ IdleTools
    /\ sql_mode = "strict"
    /\ investments \in InvestmentTables
    /\ portfolios \in {<< >>, << _calculate_portfolio_data(investments) >>}
    /\ decisions = 0
    /\ decision = NoDecision
    /\ outcome = "none"
    /\ market_records \in MarketSnapshots
    /\ profiles = << >>
    /\ portfolio_result = NoPortfolioResult
    /\ reconcile_pc = "scraped"

NotReconcile ==
    << runVars, marketTables, userTables, historyTables, diffVars, entryVars, fanVars,
       ledgerVars, analyzerVars, toolVars >>

\* _analyze_stocks_node: state['stock_analysis'] are the analyser's entries
analyze_market ==
    /\ reconcile_pc = "scraped"
    /\ profiles' = [i \in 1..Len(market_records) |-> analysis_dict(market_records[i])]
    /\ reconcile_pc' = "analyzed"
    /\ UNCHANGED << market_records, portfolio_result, NotReconcile >>

\* _check_portfolio_node: check_portfolio(user_id, state['stock_analysis'])
reconcile_portfolio ==
    /\ reconcile_pc = "analyzed"
    /\ portfolio_result' = check_portfolio(portfolios, investments, profiles)
    /\ reconcile_pc' = "checked"
    /\ UNCHANGED << market_records, profiles, NotReconcile >>

NextReconcile == analyze_market \/ reconcile_portfolio

SpecReconcile == InitReconcile /\ [][NextReconcile]_vars

\* ------------------------------------ the technical analyser called on its own
\* Prices are whole rupees, change_percent and the oscillators are counted
\* in hundredths, performance_score in hundredths of a point.
MaxCohort == 3

Max2(a, b) == IF a > b THEN a ELSE b

StockRecord(code, high_price, low_price, close_price, change_percent, volume) ==
    [code |-> code, high_price |-> high_price, low_price |-> low_price,
     close_price |-> close_price, change_percent |-> change_percent, volume |-> volume]

\* the records of a snapshot: moving and flat days, a day traded at one
\* price, volumes on both sides of 1,000,000, two records alike but for the code
StockRecords ==
    { StockRecord("HBL", 102, 100, 101, 70, 1500000),
      StockRecord("LUCK", 102, 100, 101, 70, 1500000),
      StockRecord("UBL", 100, 100, 100, 0, 500000),
      StockRecord("OGDC", 86, 86, 86, 200, 1500000),
      StockRecord("PPL", 90, 80, 82, -600, 0),
      StockRecord("ENGRO", 120, 100, 120, 2000, 2000000) }

\* the snapshots: one record per code
Cohorts ==
    {s \in UNION {[1..n -> StockRecords] : n \in 1..MaxCohort} :
        \A i, j \in 1..Len(s) : i # j => s[i].code # s[j].code}

\* _calculate_rsi: 50 + min(3 * change_percent, 50) capped at 100 for a rise,
\* 50 + max(3 * change_percent, -50) floored at 0 otherwise
_calculate_rsi(stock) ==
    IF stock.change_percent > 0
    THEN Min2(5000 + Min2(3 * stock.change_percent, 5000), 10000)
    ELSE Max2(5000 + Max2(3 * stock.change_percent, -5000), 0)

\* _calculate_stochastic without its test of high != low: the division
\* raises and the bare except returns 50.0, 50.0
_calculate_stochastic_unguarded(stock) ==
    IF stock.high_price # stock.low_price
    THEN LET k_percent == ((stock.close_price - stock.low_price) * 10000)
                              \div (stock.high_price - stock.low_price)
         IN [stochastic_k |-> k_percent, stochastic_d |-> k_percent,
             zero_division |-> FALSE]
    ELSE [stochastic_k |-> 5000, stochastic_d |-> 5000, zero_division |-> TRUE]

\* _calculate_stochastic: %K and the simplified %D
_calculate_stochastic(stock) ==
    IF stock.high_price # stock.low_price
    THEN LET k_percent == ((stock.close_price - stock.low_price) * 10000)
                              \div (stock.high_price - stock.low_price)
         IN [stochastic_k |-> k_percent, stochastic_d |-> k_percent,
             zero_division |-> FALSE]
    ELSE [stochastic_k |-> 5000, stochastic_d |-> 5000, zero_division |-> FALSE]

_calculate_williams_r(stock) ==
    IF stock.high_price # stock.low_price
    THEN [williams_r |-> 0 - (((stock.high_price - stock.close_price) * 10000)
                                  \div (stock.high_price - stock.low_price)),
          zero_division |-> FALSE]
    ELSE [williams_r |-> -5000, zero_division |-> FALSE]

\* _calculate_advanced_technical_indicators: the oscillators of a record
_calculate_advanced_technical_indicators(stock) ==
    LET stochastic == _calculate_stochastic(stock)
        williams == _calculate_williams_r(stock)
    IN [code |-> stock.code,
        rsi |-> _calculate_rsi(stock),
        stochastic_k |-> stochastic.stochastic_k,
        stochastic_d |-> stochastic.stochastic_d,
        williams_r |-> williams.williams_r,
        zero_division |-> stochastic.zero_division \/ williams.zero_division]

\* _calculate_comprehensive_performance_score, its inputs computed as
\* _calculate_volume_analysis (volume_ratio = volume / (1.1 * volume)),
\* _calculate_advanced_analytics (sharpe_ratio) and _calculate_risk_metrics
\* (value_at_risk, norm.ppf(0.95) = 1.6449) compute them
_calculate_comprehensive_performance_score(stock) ==
    LET change_percent == stock.change_percent
        base_score == Abs(change_percent) * 30
        rsi_score == (5000 - Abs(_calculate_rsi(stock) - 5000)) \div 2
        volume_ratio == IF stock.volume > 0 THEN 9090 ELSE 10000
        volume_score == Min2(volume_ratio, 20000) \div 5
        sharpe_ratio == (change_percent * 1000) \div Max2(Abs(change_percent), 100)
        sharpe_score == (Min2(Max2(sharpe_ratio, 0), 1000) * 15) \div 10
        volatility == ((stock.high_price - stock.low_price) * 10000) \div stock.close_price
        value_at_risk == Abs(change_percent) + (volatility * 16449) \div 10000
        risk_score == Max2(0, 10000 - value_at_risk) \div 10
        total_score == base_score + rsi_score + volume_score + sharpe_score + risk_score
        with_rise == IF change_percent > 0 THEN (total_score * 12) \div 10 ELSE total_score
        with_volume == IF stock.volume > 1000000 THEN (with_rise * 11) \div 10 ELSE with_rise
    IN Min2(with_volume, 10000)

\* the votes _generate_advanced_recommendations counts from the RSI, the
\* change and the performance score
buy_signals(stock, performance_score) ==
    LET rsi == _calculate_rsi(stock)
        change_percent == stock.change_percent
    IN (IF rsi < 3000 THEN 2 ELSE IF rsi < 4000 THEN 1 ELSE 0)
       + (IF change_percent > 500 THEN 2 ELSE IF change_percent > 0 THEN 1 ELSE 0)
       + (IF performance_score > 7000 THEN 2
          ELSE IF performance_score > 5000 THEN 1 ELSE 0)

sell_signals(stock, performance_score) ==
    LET rsi == _calculate_rsi(stock)
        change_percent == stock.change_percent
    IN (IF rsi < 4000 THEN 0 ELSE IF rsi > 7000 THEN 2 ELSE IF rsi > 6000 THEN 1 ELSE 0)
       + (IF change_percent > 0 THEN 0
          ELSE IF change_percent < -500 THEN 2
          ELSE IF change_percent < 0 THEN 1 ELSE 0)
       + (IF performance_score > 5000 THEN 0
          ELSE IF performance_score < 3000 THEN 1 ELSE 0)

\* _generate_advanced_recommendations: the label, confidence_score in
\* percent, expected_return = change_percent * 1.5 in hundredths
_generate_advanced_recommendations(stock, performance_score) ==
    LET buy == buy_signals(stock, performance_score)
        sell == sell_signals(stock, performance_score)
        expected_return == (stock.change_percent * 3) \div 2
    IN IF buy > sell /\ buy >= 3
       THEN [recommendation |-> "strong_buy",
             confidence_score |-> Min2(90, 60 + buy * 10),
             expected_return |-> expected_return]
       ELSE IF buy > sell
       THEN [recommendation |-> "buy",
             confidence_score |-> Min2(80, 50 + buy * 10),
             expected_return |-> expected_return]
       ELSE IF sell > buy /\ sell >= 3
       THEN [recommendation |-> "strong_sell",
             confidence_score |-> Min2(90, 60 + sell * 10),
             expected_return |-> expected_return]
       ELSE IF sell > buy
       THEN [recommendation |-> "sell",
             confidence_score |-> Min2(80, 50 + sell * 10),
             expected_return |-> expected_return]
       ELSE [recommendation |-> "hold", confidence_score |-> 50,
             expected_return |-> expected_return]

\* _calculate_advanced_trend_analysis: momentum = change_percent * 2
_calculate_advanced_trend_analysis(stock) ==
    [momentum |-> 2 * stock.change_percent]

\* analyze_stock_comprehensive: what the ranking uses of a record's analysis
analyze_stock_comprehensive(stock) ==
    LET performance_score == _calculate_comprehensive_performance_score(stock)
    IN Rec(stock.code, performance_score,
           _generate_advanced_recommendations(stock, performance_score).confidence_score)

\* the keys formatted_stock is built from; a record without one of them
\* raises KeyError inside the loop's try
RequiredKeys == {"code", "high_price", "low_price", "close_price", "change_percent", "volume"}

well_formed(stock) == RequiredKeys \subseteq DOMAIN stock

\* the dict the loop appends to analyzed_stocks for a record: momentum is a
\* key of its technical_analysis
analyzed_stock(stock) ==
    LET performance_score == _calculate_comprehensive_performance_score(stock)
        advice == _generate_advanced_recommendations(stock, performance_score)
    IN [stock_code |-> stock.code,
        performance_score |-> performance_score,
        technical_analysis |-> _calculate_advanced_trend_analysis(stock),
        recommendation |-> advice.recommendation,
        confidence_score |-> advice.confidence_score,
        expected_return |-> advice.expected_return]

RECURSIVE analyze_each_until_failure(_)
\* the loop with the failure of a record ending it
analyze_each_until_failure(stock_data) ==
    IF stock_data = << >> THEN << >>
    ELSE IF well_formed(Head(stock_data))
         THEN << Head(stock_data) >> \o analyze_each_until_failure(Tail(stock_data))
         ELSE << >>

RECURSIVE analyze_each(_)
\* for stock in stock_data: try .. except Exception: continue -- the records
\* the loop analyses, in their order
analyze_each(stock_data) ==
    IF stock_data = << >> THEN << >>
    ELSE IF well_formed(Head(stock_data))
         THEN << Head(stock_data) >> \o analyze_each(Tail(stock_data))
         ELSE analyze_each(Tail(stock_data))

\* the oscillators of a record the loop skipped
Skipped == [skipped |-> TRUE]

InitAnalyzer ==
    /\ InitPipeline
    /\ old_recommendations = << >>
    /\ new_recommendations = << >>
    /\ changes = EmptyDelta
    /\ called = FALSE
    /\ IdleEntry
    /\ IdleFan
    /\ IdleLedger
    /\ IdleReconcile
    /\ IdleTools
    /\ cohort \in Cohorts
    /\ technical_indicators = << >>
    /\ top_performers = << >>
    /\ analyzed_stocks = << >>
    /\ analyzer_pc = "called"

NotAnalyzer ==
    << runVars, marketTables, userTables, historyTables, diffVars, entryVars, fanVars,
       ledgerVars, reconcileVars, toolVars >>

\* analyze_stocks_advanced_agentic(stock_data) without user_input
analyze_cohort ==
    /\ analyzer_pc = "called"
    /\ technical_indicators' =
           [i \in 1..Len(cohort) |->
               IF well_formed(cohort[i])
               THEN _calculate_advanced_technical_indicators(cohort[i])
               ELSE Skipped]
    /\ LET analysed == analyze_each(cohort)
       IN /\ analyzed_stocks' = [i \in 1..Len(analysed) |-> analyzed_stock(analysed[i])]
          /\ top_performers' =
                 analyze_stocks_advanced_agentic(
                     [i \in 1..Len(analysed) |-> analyze_stock_comprehensive(analysed[i])])
    /\ analyzer_pc' = "returned"
    /\ UNCHANGED << cohort, NotAnalyzer >>

NextAnalyzer == analyze_cohort

SpecAnalyzer == InitAnalyzer /\ [][NextAnalyzer]_vars

\* records the loop cannot format: one without its close_price, one without
\* its change_percent
MalformedRecords ==
    { [code |-> "MCB", high_price |-> 210, low_price |-> 200,
       change_percent |-> 150, volume |-> 800000],
      [code |-> "MEBL", high_price |-> 150, low_price |-> 140, close_price |-> 145,
       volume |-> 2000000] }

\* the snapshots with such records anywhere among the others
MixedCohorts ==
    {s \in UNION {[1..n -> StockRecords \cup MalformedRecords] : n \in 1..MaxCohort} :
        \A i, j \in 1..Len(s) : i # j => s[i].code # s[j].code}

InitMixed ==
    /\ InitPipeline
    /\ old_recommendations = << >>
    /\ new_recommendations = << >>
    /\ changes = EmptyDelta
    /\ called = FALSE
    /\ IdleEntry
    /\ IdleFan
    /\ IdleLedger
    /\ IdleReconcile
    /\ IdleTools
    /\ cohort \in MixedCohorts
    /\ technical_indicators = << >>
    /\ top_performers = << >>
    /\ analyzed_stocks = << >>
    /\ analyzer_pc = "called"

SpecMixed == InitMixed /\ [][NextAnalyzer]_vars


\* ------------------------------------------------------ sentiment profile
\* analyze_company_news called on its own for one company.  A row of
\* news_records is given by what the analyser reads of it: the polarity
\* analyze_sentiment_advanced gives its title and summary, the
\* confidence_score the scraper stored with it (in percent), and the
\* opportunity and risk keywords extract_keywords_and_impact finds in it.
MaxItems == 5

NewsItem(s, k, o, r) ==
    [sentiment |-> s, confidence_score |-> k, opportunities |-> o, risk_factors |-> r]

NewsItems ==
    { NewsItem("positive", 80, {"growth"}, {}),
      NewsItem("positive", 50, {}, {}),
      NewsItem("negative", 80, {}, {"loss"}),
      NewsItem("negative", 50, {}, {}),
      NewsItem("neutral", 30, {"growth"}, {}),
      NewsItem("neutral", 30, {}, {"loss"}) }

NewsLists == UNION {[1..n -> NewsItems] : n \in 0..MaxItems}

\* risk_factors and opportunities are cut to five entries
KeywordLimit == 5

\* the fields of NewsAnalysisResult the profile is read by: sentiment_score
\* in thousandths, confidence in ten-thousandths
SentimentProfile(c, o, s, n, p, g, u, r, k) ==
    [stock_code |-> c, overall_sentiment |-> o, sentiment_score |-> s,
     news_count |-> n, positive_news |-> p, negative_news |-> g,
     neutral_news |-> u, recommendation |-> r, confidence |-> k]

\* _generate_recommendation: the recommendation text and its confidence
_generate_recommendation(overall_sentiment, sentiment_score, n_risk, n_opp, avg_confidence) ==
    IF overall_sentiment = "bullish"
    THEN IF sentiment_score > 700 /\ n_opp > n_risk
         THEN << "Strong buy recommendation based on positive news sentiment and growth opportunities.",
                 Min2(9000, avg_confidence + 2000) >>
         ELSE << "Buy recommendation based on positive news sentiment.",
                 Min2(8000, avg_confidence + 1000) >>
    ELSE IF overall_sentiment = "bearish"
    THEN IF sentiment_score < -700 /\ n_risk > n_opp
         THEN << "Strong sell recommendation due to negative news sentiment and risk factors.",
                 Min2(9000, avg_confidence + 2000) >>
         ELSE << "Sell recommendation based on negative news sentiment.",
                 Min2(8000, avg_confidence + 1000) >>
    ELSE IF n_opp > n_risk
         THEN << "Hold with potential for growth based on mixed news sentiment.",
                 Min2(7000, avg_confidence) >>
         ELSE << "Hold with caution due to mixed news sentiment.",
                 Min2(6000, avg_confidence) >>

\* the early return of analyze_news_for_company and of analyze_company_news
\* when there are no rows
no_news_profile_with_default_confidence(stock_code) ==
    SentimentProfile(stock_code, "neutral", 0, 0, 0, 0, 0,
                     "Hold with caution due to mixed news sentiment.", 5000)

no_news_profile(stock_code) ==
    SentimentProfile(stock_code, "neutral", 0, 0, 0, 0, 0,
                     "No recent news available for analysis.", 0)

CountSentiment(records, s) ==
    Cardinality({i \in DOMAIN records : records[i].sentiment = s})

\* the overall sentiment and its score from the counts
overall_sentiment_by_majority(positive, negative, total_articles) ==
    IF positive > negative
    THEN << "bullish", (1000 * positive) \div total_articles >>
    ELSE IF negative > positive
    THEN << "bearish", 0 - ((1000 * negative) \div total_articles) >>
    ELSE << "neutral", 0 >>

overall_sentiment_of(positive, negative, total_articles) ==
    IF positive > negative /\ 10 * positive > PositiveRatioMin * total_articles
    THEN << "bullish", (1000 * positive) \div total_articles >>
    ELSE IF negative > positive /\ 10 * negative > PositiveRatioMin * total_articles
    THEN << "bearish", 0 - ((1000 * negative) \div total_articles) >>
    ELSE << "neutral", 0 >>

\* analyze_news_for_company with every field of the profile, over the list
\* of rows get_news_records_for_company returned
analyze_news_records(records, stock_code) ==
    IF Len(records) = 0
    THEN no_news_profile(stock_code)
    ELSE LET total_articles == Len(records)
             positive == CountSentiment(records, "positive")
             negative == CountSentiment(records, "negative")
             neutral == CountSentiment(records, "neutral")
             overall == overall_sentiment_of(positive, negative, total_articles)
             total_confidence == Sum([i \in DOMAIN records |-> records[i].confidence_score])
             avg_confidence == (100 * total_confidence) \div total_articles
             risks == UNION {records[i].risk_factors : i \in DOMAIN records}
             opps == UNION {records[i].opportunities : i \in DOMAIN records}
             rec == _generate_recommendation(overall[1], overall[2],
                        Min2(Cardinality(risks), KeywordLimit),
                        Min2(Cardinality(opps), KeywordLimit), avg_confidence)
         IN SentimentProfile(stock_code, overall[1], overall[2], total_articles,
                             positive, negative, neutral, rec[1], rec[2])

InitNews ==
    /\ InitPipeline
    /\ old_recommendations = << >>
    /\ new_recommendations = << >>
    /\ changes = EmptyDelta
    /\ called = FALSE
    /\ IdleEntry
    /\ IdleFan
    /\ IdleLedger
    /\ IdleReconcile
    /\ IdleAnalyzer
    /\ IdleRisk
    /\ IdleSynth
    /\ IdleAccount
    /\ IdleScrape
    /\ news_items \in NewsLists
    /\ sentiment_profile = NoProfile
    /\ news_pc = "called"

NotNews ==
    << runVars, marketTables, userTables, historyTables, diffVars, entryVars, fanVars,
       ledgerVars, reconcileVars, analyzerVars, riskVars, synthVars,
       accountVars, scrapeVars >>

\* analyze_company_news(stock_code): the rows are read and analysed
analyze_company ==
    /\ news_pc = "called"
    /\ sentiment_profile' = analyze_news_records(news_items, "HBL")
    /\ news_pc' = "returned"
    /\ UNCHANGED << news_items, NotNews >>

NextNews == analyze_company

SpecNews == InitNews /\ [][NextNews]_vars


\* ------------------------------------------------------------ risk profile
\* check_risk_profile called on its own for one user.  Scores are in
\* ten-thousandths, money in whole rupees.
MaxTrades == 2

\* a row of get_user_investments: the query keeps active rows only, whose
\* sell_date is NULL
TradeRow(sector, realized_pnl, current_value) ==
    [status |-> "active", sector |-> sector, realized_pnl |-> realized_pnl,
     current_value |-> current_value, sell_date |-> "NULL"]

TradeRows ==
    {TradeRow(c, p, v) : c \in {"Banking", "Energy"}, p \in {0, 10}, v \in {50, 100}}

TradeHistories == UNION {[1..n -> TradeRows] : n \in 0..MaxTrades}

\* a row of users
UserRow(risk_tolerance) == [found |-> TRUE, risk_tolerance |-> risk_tolerance]

UserRows == {None} \cup {UserRow(t) : t \in {"low", "moderate", "high"}}

\* a row of portfolios: the row written at registration holds 0 in every
\* amount, update_portfolio_snapshot writes total_value and
\* total_profit_loss = total_value - total_invested of the shares held and
\* leaves cash_balance as create_user_portfolio set it
PortfolioRow(total_value, total_profit_loss, cash_balance) ==
    [found |-> TRUE, total_value |-> total_value,
     total_profit_loss |-> total_profit_loss, cash_balance |-> cash_balance]

PortfolioRows ==
    {None} \cup
    {r \in {PortfolioRow(v, p, c) :
                v \in {0, 100, 200}, p \in {-150, 0, 50}, c \in {0, 100, 300}} :
         /\ r.total_profit_loss <= r.total_value
         /\ r.total_value = 0 => r.total_profit_loss = 0}

Maximum(S) == CHOOSE x \in S : \A y \in S : y <= x

\* _analyze_investment_behavior: no row read has a sell_date, so
\* holding_periods stays empty and the average holding period is 0
_analyze_investment_behavior(investment_history) ==
    IF Len(investment_history) = 0
    THEN [total_trades |-> 0, profit_loss_ratio |-> 0, sector_diversification |-> 0,
          behavior_score |-> 5000]
    ELSE LET total_trades == Len(investment_history)
             holding_periods ==
                 {i \in DOMAIN investment_history :
                      investment_history[i].sell_date # "NULL"}
             avg_holding_period == 0
             profitable_trades ==
                 {i \in DOMAIN investment_history :
                      investment_history[i].realized_pnl > 0}
             profit_loss_ratio == (10000 * Cardinality(profitable_trades)) \div total_trades
             sectors == {investment_history[i].sector : i \in DOMAIN investment_history}
             sector_diversification ==
                 (10000 * Cardinality(sectors)) \div Max2(total_trades, 1)
             behavior_score ==
                 (profit_loss_ratio * 40
                  + Min2((10000 * avg_holding_period) \div 365, 10000) * 30
                  + sector_diversification * 30) \div 100
         IN [total_trades |-> total_trades, profit_loss_ratio |-> profit_loss_ratio,
             sector_diversification |-> sector_diversification,
             behavior_score |-> behavior_score]

\* the defaults _analyze_portfolio_risk answers without a portfolio
DefaultPortfolioRisk ==
    [portfolio_volatility |-> 5000, concentration_risk |-> 5000,
     liquidity_risk |-> 5000, sector_risk |-> 5000, overall_portfolio_risk |-> 5000]

\* _analyze_portfolio_risk: a row of portfolios is a non-empty dict, so only
\* a missing row takes the defaults
_analyze_portfolio_risk(portfolio, investment_history) ==
    IF portfolio = None
    THEN DefaultPortfolioRisk
    ELSE LET denom == Max2(portfolio.total_value, 1)
             active == {i \in DOMAIN investment_history :
                            investment_history[i].status = "active"}
             portfolio_volatility == (10000 * Abs(portfolio.total_profit_loss)) \div denom
             concentration_risk ==
                 IF active # {}
                 THEN (10000 * Maximum({investment_history[i].current_value : i \in active}))
                          \div denom
                 ELSE 5000
             liquidity_risk == 10000 - ((10000 * portfolio.cash_balance) \div denom)
             exposure ==
                 {SumOver(investment_history,
                          {i \in active : investment_history[i].sector = c}, "current_value") :
                      c \in {investment_history[i].sector : i \in active}}
             sector_risk ==
                 IF exposure # {} THEN (10000 * Maximum(exposure)) \div denom ELSE 5000
         IN [portfolio_volatility |-> portfolio_volatility,
             concentration_risk |-> concentration_risk,
             liquidity_risk |-> liquidity_risk,
             sector_risk |-> sector_risk,
             overall_portfolio_risk |->
                 (portfolio_volatility * 30 + concentration_risk * 25
                  + liquidity_risk * 25 + sector_risk * 20) \div 100]

\* the base risk of the stated tolerance
base_risk_of(user_profile) ==
    LET risk_tolerance ==
            IF user_profile = None THEN "moderate" ELSE user_profile.risk_tolerance
    IN IF risk_tolerance = "low" THEN 3000
       ELSE IF risk_tolerance = "high" THEN 8000
       ELSE 5000

\* _calculate_comprehensive_risk_score
_calculate_comprehensive_risk_score(user_profile, behavior_analysis, portfolio_risk) ==
    LET base_risk == base_risk_of(user_profile)
        behavior_risk == 10000 - behavior_analysis.behavior_score
        portfolio_risk_score == portfolio_risk.overall_portfolio_risk
        comprehensive_risk ==
            (base_risk * 30 + behavior_risk * 40 + portfolio_risk_score * 30) \div 100
    IN Min2(Max2(comprehensive_risk, 0), 10000)

\* _generate_risk_profile: the level and the score
_generate_risk_profile(risk_score) ==
    [risk_level |-> IF risk_score < 3000 THEN "low"
                    ELSE IF risk_score < 7000 THEN "moderate"
                    ELSE "high",
     risk_score |-> risk_score]

\* RiskChecker.check_risk_profile
check_risk_profile(user_profile, investment_history, portfolio) ==
    LET behavior_analysis == _analyze_investment_behavior(investment_history)
        portfolio_risk == _analyze_portfolio_risk(portfolio, investment_history)
        risk_score ==
            _calculate_comprehensive_risk_score(user_profile, behavior_analysis, portfolio_risk)
    IN [success |-> TRUE,
        risk_profile |-> _generate_risk_profile(risk_score),
        behavior_analysis |-> behavior_analysis,
        portfolio_risk |-> portfolio_risk]

InitRisk ==
    /\ InitPipeline
    /\ old_recommendations = << >>
    /\ new_recommendations = << >>
    /\ changes = EmptyDelta
    /\ called = FALSE
    /\ IdleEntry
    /\ IdleFan
    /\ IdleLedger
    /\ IdleReconcile
    /\ IdleAnalyzer
    /\ IdleNews
    /\ IdleSynth
    /\ IdleAccount
    /\ IdleScrape
    /\ risk_user \in UserRows
    /\ risk_history \in TradeHistories
    /\ risk_portfolio \in PortfolioRows
    /\ risk_result = NoRiskResult
    /\ risk_pc = "called"

NotRisk ==
    << runVars, marketTables, userTables, historyTables, diffVars, entryVars, fanVars,
       ledgerVars, reconcileVars, analyzerVars, newsVars, synthVars,
       accountVars, scrapeVars >>

check_risk ==
    /\ risk_pc = "called"
    /\ risk_result' = check_risk_profile(risk_user, risk_history, risk_portfolio)
    /\ risk_pc' = "returned"
    /\ UNCHANGED << risk_user, risk_history, risk_portfolio, NotRisk >>

NextRisk == check_risk

SpecRisk == InitRisk /\ [][NextRisk]_vars


\* ------------------------------------------- synthesis after the analysis
\* _analyze_stocks_node followed by generate_recommendations in one run:
\* state['stock_analysis'] holds the dicts the analyser ranked, news_analysis
\* the sentiment profiles of some of their companies.
SentimentScores == {-100, 0, 60, 80, 100}

\* the news_analysis dicts of a run over the companies of a snapshot
NewsAnalyses(stock_data) ==
    {[c \in covered |->
         NewsAnalysisResult(c, IF v > 0 THEN "bullish" ELSE IF v < 0 THEN "bearish" ELSE "neutral",
                            v, 5)] :
        covered \in SUBSET {stock_data[i].code : i \in 1..Len(stock_data)},
        v \in SentimentScores}

\* the entry of state['stock_analysis'] a ranked profile stands for
stock_analysis_entry(profile, analyzed) ==
    CHOOSE d \in Range(analyzed) : d.stock_code = profile.stock_code

\* expected_return = analysis.get('momentum', 0) * 100
expected_return_of(analysis) == Get(analysis, "momentum", 0) * 100

\* a recommendation with its expected_return
RecommendationWithReturn(rec, expected_return) ==
    [stock_code |-> rec.stock_code, recommendation_type |-> rec.recommendation_type,
     confidence_score |-> rec.confidence_score, expected_return |-> expected_return]

InitSynth ==
    /\ InitPipeline
    /\ old_recommendations = << >>
    /\ new_recommendations = << >>
    /\ changes = EmptyDelta
    /\ called = FALSE
    /\ IdleEntry
    /\ IdleFan
    /\ IdleLedger
    /\ IdleReconcile
    /\ IdleNews
    /\ IdleRisk
    /\ IdleAccount
    /\ IdleScrape
    /\ cohort \in Cohorts
    /\ technical_indicators = << >>
    /\ top_performers = << >>
    /\ analyzed_stocks = << >>
    /\ analyzer_pc = "called"
    /\ synth_news \in NewsAnalyses(cohort)
    /\ synth_recs = << >>
    /\ synth_pc = "waiting"

NotSynth ==
    << runVars, marketTables, userTables, historyTables, diffVars, entryVars, fanVars,
       ledgerVars, reconcileVars, analyzerVars, newsVars, riskVars,
       accountVars, scrapeVars >>

\* generate_recommendations(state['stock_analysis'], state['news_analysis'], ..)
synthesize ==
    /\ analyzer_pc = "returned"
    /\ synth_pc = "waiting"
    /\ LET recs == generate_recommendations(top_performers, synth_news)
       IN synth_recs' =
              [i \in 1..Len(recs) |->
                  RecommendationWithReturn(recs[i],
                      expected_return_of(stock_analysis_entry(recs[i], analyzed_stocks)))]
    /\ synth_pc' = "returned"
    /\ UNCHANGED << synth_news, NotSynth >>

NextSynth == analyze_cohort \/ synthesize

SpecSynth == InitSynth /\ [][NextSynth]_vars


\* ------------------------------------------------------------------
\* PortfolioManager.record_investment_transaction: the buys and sells a
\* user records by hand, against the same investments and portfolios tables

\* users.cash_balance of the user: 0.00 at registration, more once funded
CashBalances == {0, 1500, 5000}

\* the price of a recorded transaction
TransactionPrices == {1000, 1100}

\* stocks.close_price of the latest row of a listed code
close_price(stock_code) == IF stock_code = "HBL" THEN 1000 ELSE 1200

\* stock_details.get('close_price', price): the given price when the code
\* is not in the stocks table
current_price_of(stock_code, price) ==
    IF stock_code \in stocks THEN close_price(stock_code) ELSE price

\* the row the buy branch inserts
investment_data(stock_code, quantity, price, total_amount) ==
    [stock_code |-> stock_code, quantity |-> quantity,
     buy_price |-> price, total_invested |-> total_amount,
     current_quantity |-> quantity,
     current_value |-> quantity * current_price_of(stock_code, price),
     status |-> "active"]

\* _sync_user_portfolio_data: the users row from the active rows and the cash
_sync_user_portfolio_data(rows, cash_balance) ==
    LET active == {i \in 1..Len(rows) : rows[i].status = "active"}
    IN [cash_balance |-> cash_balance,
        portfolio_value |-> SumOver(rows, active, "current_value") + cash_balance,
        total_invested |-> SumOver(rows, active, "total_invested")]

InitTransactions ==
    /\ pc = [r \in Runs |-> "idle"]
    /\ wf = [r \in Runs |-> NoLocals]
    /\ state = [r \in Runs |-> initial_state]
    /\ result = [r \in Runs |-> NoResult]
    /\ started = 0
    /\ faults = 0
    /\ trace = [r \in Runs |-> << >>]
    /\ inputs = [r \in Runs |-> NoInputs]
    /\ stocks = LedgerStocks
    /\ stock_analysis_table = {}
    /\ news_records = {}
    /\ news_analysis_table = {}
    /\ recommendations = {}
    /\ users = {}
    /\ user_form_submissions = {}
    /\ user_recommendations_history = {}
    /\ auto_increment = 0
    /\ last_saved = [u \in Users |-> 0]
    /\ old_recommendations = << >>
    /\ new_recommendations = << >>
    /\ changes = EmptyDelta
    /\ called = FALSE
    /\ IdleEntry
    /\ IdleFan
    /\ IdleReconcile
    /\ IdleAnalyzer
    /\ IdleNews
    /\ IdleRisk
    /\ IdleSynth
    /\ IdleScrape
    /\ sql_mode = "not_strict"
    /\ investments = << >>
    /\ portfolios = << >>
    /\ decisions = 0
    /\ decision = NoDecision
    /\ outcome = "none"
    /\ \E cash_balance \in CashBalances :
          account = _sync_user_portfolio_data(<< >>, cash_balance)

NotTransactions ==
    << runVars, marketTables, userTables, historyTables, diffVars, entryVars, fanVars,
       sql_mode, reconcileVars, analyzerVars, newsVars, riskVars, synthVars, scrapeVars >>

\* the call returned: True is "success", False is "error"
TransactionAnswered(transaction_type, stock_code, quantity, answer) ==
    /\ decisions < MaxDecisions
    /\ decisions' = decisions + 1
    /\ decision' = [decision_type |-> transaction_type, stock_code |-> stock_code,
                    quantity |-> quantity]
    /\ outcome' = answer
    /\ UNCHANGED NotTransactions

\* the buy branch: the row is inserted, each statement committed on its own
\* connection, and the cash is read after that; with too little cash the
\* call returns False there. An insert the database refuses twice raises
\* to the outer handler, which returns False as well.
record_buy_transaction ==
    \E stock_code \in DecisionCodes, quantity \in Quantities \ {0},
       price \in TransactionPrices, insert_raises \in BOOLEAN :
        LET total_amount == quantity * price
            rows == Append(investments,
                        investment_data(stock_code, quantity, price, total_amount))
            current_cash == account.cash_balance
            left == IF current_cash - total_amount < 0 THEN 0
                    ELSE current_cash - total_amount
        IN IF insert_raises
           THEN /\ TransactionAnswered("buy", stock_code, quantity, "error")
                /\ UNCHANGED << investments, portfolios, account >>
           ELSE IF current_cash < total_amount
           THEN /\ TransactionAnswered("buy", stock_code, quantity, "error")
                /\ investments' = rows
                /\ UNCHANGED << portfolios, account >>
           ELSE /\ TransactionAnswered("buy", stock_code, quantity, "success")
                /\ investments' = rows
                /\ portfolios' = << update_portfolio_snapshot(rows) >>
                /\ account' = _sync_user_portfolio_data(rows, left)

\* the sell branch: _handle_sell_transaction, then the proceeds are added
\* to the cash, the snapshot is taken and the users row synchronised
record_sell_transaction ==
    \E stock_code \in DecisionCodes, quantity \in Quantities \ {0},
       price \in TransactionPrices :
        LET total_amount == quantity * price
            held == {i \in 1..Len(investments) :
                        /\ investments[i].stock_code = stock_code
                        /\ investments[i].current_quantity > 0}
        IN IF held = {}
           THEN /\ TransactionAnswered("sell", stock_code, quantity, "error")
                /\ UNCHANGED << investments, portfolios, account >>
           ELSE \E i \in held :
                  LET current_quantity == investments[i].current_quantity
                      new_quantity == current_quantity - quantity
                      status == IF new_quantity = 0 THEN "sold" ELSE "partial_sold"
                      rows == [j \in 1..Len(investments) |->
                                 IF j \in held
                                 THEN [investments[j] EXCEPT
                                         !.current_quantity = new_quantity,
                                         !.current_value = new_quantity * price,
                                         !.status = status]
                                 ELSE investments[j]]
                  IN IF quantity > current_quantity
                     THEN /\ TransactionAnswered("sell", stock_code, quantity, "error")
                          /\ UNCHANGED << investments, portfolios, account >>
                     ELSE /\ TransactionAnswered("sell", stock_code, quantity, "success")
                          /\ investments' = rows
                          /\ portfolios' = << update_portfolio_snapshot(rows) >>
                          /\ account' = _sync_user_portfolio_data(rows,
                                            account.cash_balance + total_amount)

NextTransactions ==
    \/ record_buy_transaction
    \/ record_sell_transaction

SpecTransactions == InitTransactions /\ [][NextTransactions]_vars


\* ------------------------------------------------------------------
\* StockScraper.scrape_data: the snapshot fetch and its retry loop

max_retries == 3

\* the non-empty lists extract_stock_data may return
Pages == {<< "HBL" >>, << "OGDC" >>, << "HBL", "OGDC" >>}

\* what one attempt meets: navigate_to_page returned False,
\* wait_for_data_load returned False, extract_stock_data returned a list
\* (empty or not), or one of the three raised
AttemptOutcomes ==
    { [kind |-> k, stocks |-> << >>] :
        k \in {"navigate_failed", "load_failed", "extracted", "exception"} }
    \cup { [kind |-> "extracted", stocks |-> p] : p \in Pages }

\* the body of the loop without its except clause
scrape_step_uncaught(index, met) ==
    LET continue == IF index + 1 < max_retries
                    THEN [pc |-> "trying", attempt |-> index + 1, stocks |-> << >>]
                    ELSE [pc |-> "returned", attempt |-> index + 1, stocks |-> << >>]
        give_up == [pc |-> "returned", attempt |-> index, stocks |-> << >>]
    IN IF met.kind \in {"navigate_failed", "load_failed"}
       THEN IF index = max_retries - 1 THEN give_up ELSE continue
       ELSE IF met.kind = "extracted"
       THEN IF met.stocks # << >>
            THEN [pc |-> "returned", attempt |-> index, stocks |-> met.stocks]
            ELSE continue
       ELSE [pc |-> "raised", attempt |-> index, stocks |-> << >>]

\* one pass of `for attempt in range(self.max_retries)`: where the call is
\* after it, and what it returned if it did; an exception is logged and
\* the loop goes on after the sleep
scrape_step(index, met) ==
    LET continue == IF index + 1 < max_retries
                    THEN [pc |-> "trying", attempt |-> index + 1, stocks |-> << >>]
                    ELSE [pc |-> "returned", attempt |-> index + 1, stocks |-> << >>]
        give_up == [pc |-> "returned", attempt |-> index, stocks |-> << >>]
    IN IF met.kind \in {"navigate_failed", "load_failed"}
       THEN IF index = max_retries - 1 THEN give_up ELSE continue
       ELSE IF met.kind = "extracted"
       THEN IF met.stocks # << >>
            THEN [pc |-> "returned", attempt |-> index, stocks |-> met.stocks]
            ELSE continue
       ELSE continue

\* scrape_data has been called and is about to make its first attempt
InitScrape ==
    /\ InitPipeline
    /\ old_recommendations = << >>
    /\ new_recommendations = << >>
    /\ changes = EmptyDelta
    /\ called = FALSE
    /\ IdleEntry
    /\ IdleFan
    /\ IdleLedger
    /\ IdleReconcile
    /\ IdleAnalyzer
    /\ IdleNews
    /\ IdleRisk
    /\ IdleSynth
    /\ IdleAccount
    /\ attempt = 0
    /\ attempts = << >>
    /\ scrape_result = << >>
    /\ scrape_pc = "trying"

NotScrape ==
    << runVars, marketTables, userTables, historyTables, diffVars, entryVars, fanVars,
       ledgerVars, reconcileVars, analyzerVars, newsVars, riskVars, synthVars,
       accountVars >>

scrape_data ==
    /\ scrape_pc = "trying"
    /\ \E met \in AttemptOutcomes :
          LET after == scrape_step(attempt, met)
          IN /\ attempts' = Append(attempts, met)
             /\ attempt' = after.attempt
             /\ scrape_result' = after.stocks
             /\ scrape_pc' = after.pc
    /\ UNCHANGED NotScrape

NextScrape == scrape_data

SpecScrape == InitScrape /\ [][NextScrape]_vars

\* ================================================================= claims
InGraph ==
    {"scrape_stocks", "analyze_stocks", "scrape_news", "analyze_news", "check_risk",
     "check_past_investments", "check_portfolio", "generate_recommendations",
     "handle_user_decision"}

AfterGraph == {"compare", "save_form", "save_form_id", "save_recs", "build_result", "done"}

\* the nodes in the order the claim gives the stages: market snapshot,
\* technical analysis, news and sentiment (scraping, then analysis), risk
\* profiling (risk, then past investments), portfolio reconciliation,
\* recommendation synthesis, and the decision hand-over that ends the graph
StageOrder ==
    << "scrape_stocks", "analyze_stocks", "scrape_news", "analyze_news", "check_risk",
       "check_past_investments", "check_portfolio", "generate_recommendations",
       "handle_user_decision" >>

StagesFailed(r) == inputs[r].stage_failed \cap InGraph

\* C1: in every run the stages execute in the one fixed order, each exactly
\* once and one after the other: what a run has executed so far is always an
\* initial part of the order, the node it is at is the next of the order, and
\* a run that has left the graph has executed all of it, whether or not
\* earlier stages failed.
C1_FixedStageOrder ==
    \A r \in Runs :
        /\ Len(trace[r]) <= Len(StageOrder)
        /\ \A i \in 1..Len(trace[r]) : trace[r][i] = StageOrder[i]
        /\ pc[r] \in InGraph => pc[r] = StageOrder[Len(trace[r]) + 1]
        /\ pc[r] \in AfterGraph => trace[r] = StageOrder

\* a finished run in which a stage failed and all stages ran in order
C1_Witness ==
    \E r \in Runs : pc[r] = "done" /\ trace[r] = StageOrder /\ StagesFailed(r) # {}

\* the value a failed stage leaves in its state field
StageDefault(n, st) ==
    CASE n = "scrape_stocks" -> st.stock_data \in {<< >>, SampleData}
      [] n = "analyze_stocks" ->
            \A i \in 1..Len(st.stock_analysis) :
                st.stock_analysis[i].confidence_score = 60 + (i - 1) * 8
      [] n = "scrape_news" -> st.news_data = << >>
      [] n = "analyze_news" -> st.news_analysis = << >>
      [] n = "check_risk" -> st.risk_profile = "empty"
      [] n = "check_past_investments" -> st.user_history = "empty"
      [] n = "check_portfolio" -> st.portfolio_update = "empty"
      [] n = "generate_recommendations" -> st.recommendations = << >>
      [] n = "handle_user_decision" -> st.user_decision_results = "error"

\* C2: a stage that fails does not end the run: its state field holds the
\* stage's default, every later stage still executes, and when the save
\* succeeds the run returns success=true with the degraded sub-results.
C2_StageFailureIsolated ==
    \A r \in Runs :
        /\ pc[r] \in (InGraph \cup AfterGraph) \ {"done"} =>
              \A n \in StagesFailed(r) : StageDefault(n, state[r])
        /\ (pc[r] = "done" /\ StagesFailed(r) # {}) =>
              /\ trace[r] = StageOrder
              /\ wf[r].save_attempted
              /\ wf[r].saved => result[r].success = TRUE
              /\ "check_risk" \in StagesFailed(r) => result[r].risk_profile = "empty"
              /\ "analyze_news" \in StagesFailed(r) => result[r].news_analysis = << >>
              /\ "generate_recommendations" \in StagesFailed(r) =>
                    result[r].recommendations = << >>

\* a finished, saved run with a failed stage and a successful result
C2_Witness ==
    \E r \in Runs : /\ pc[r] = "done" /\ StagesFailed(r) # {}
                    /\ wf[r].saved /\ result[r].success = TRUE

\* C3: whenever persisting the submission and the recommendations fails, the
\* run's result is success=false; a run that could not save is never
\* reported as success=true.
C3_SaveFailureReported ==
    \A r \in Runs :
        (pc[r] = "done" /\ wf[r].save_attempted /\ ~wf[r].saved)
            => result[r].success = FALSE

\* C4: after the persistence step the store holds a run's submission together
\* with all of its recommendations, or neither of them.
C4_SubmissionAndRecommendationsTogether ==
    \A r \in Runs :
        pc[r] \in {"build_result", "done"} =>
            LET id == wf[r].inserted_id
                stored == {h \in user_recommendations_history :
                              id # 0 /\ h.form_submission_id = id}
            IN IF id = 0 THEN stored = {}
               ELSE Cardinality(stored) = Len(wf[r].new_recommendations)

\* C5: a run only adds its own submission and recommendations: no step of a
\* run removes or alters a row that is stored, in any table.
C5_NoStoredRowRemoved ==
    [][ /\ stocks \subseteq stocks'
        /\ stock_analysis_table \subseteq stock_analysis_table'
        /\ news_records \subseteq news_records'
        /\ news_analysis_table \subseteq news_analysis_table'
        /\ recommendations \subseteq recommendations'
        /\ users \subseteq users'
        /\ user_form_submissions \subseteq user_form_submissions'
        /\ user_recommendations_history \subseteq user_recommendations_history' ]_vars

\* what a run returns for the snapshot and the news feed it was given when
\* no other run is executing and nothing fails
AloneNewsAnalysis(snapshot, feed) ==
    LET top == Take(analyze_stocks_advanced_agentic(snapshot), TopN)
    IN [c \in {top[i].stock_code : i \in 1..Len(top)} |->
           analyze_news_for_company(scrape_company_news(feed, c), c)]

AloneRecommendations(snapshot, feed) ==
    generate_recommendations(analyze_stocks_advanced_agentic(snapshot),
                             AloneNewsAnalysis(snapshot, feed))

\* C6: under any interleaving of two runs each run returns what it would
\* return executing alone on the same inputs.
C6_ResultAsIfAlone ==
    \A r \in Runs :
        pc[r] = "done" =>
            /\ result[r].news_analysis =
                   AloneNewsAnalysis(inputs[r].snapshot, inputs[r].feed)
            /\ result[r].recommendations =
                   AloneRecommendations(inputs[r].snapshot, inputs[r].feed)

CodesOf(recs) == {recs[i].stock_code : i \in 1..Len(recs)}
CodesIn(part) == {e.stock_code : e \in part}

\* C8: the four partitions of the delta are exhaustive and disjoint: every
\* symbol of the old or the new set is in exactly one of them, once, and no
\* other symbol is in any.
C8_DeltaPartitions ==
    called =>
        LET n == changes.new_recommendations
            d == changes.removed_recommendations
            c == changes.changed_recommendations
            u == changes.unchanged_recommendations
            all == CodesOf(old_recommendations) \cup CodesOf(new_recommendations)
        IN /\ CodesIn(n) \cup CodesIn(d) \cup CodesIn(c) \cup CodesIn(u) = all
           /\ Cardinality(n) + Cardinality(d) + Cardinality(c) + Cardinality(u)
                 = Cardinality(all)

\* a delta over an old and a new set that share a symbol and each have a
\* symbol of their own
C8_Witness ==
    /\ called
    /\ changes.new_recommendations # {}
    /\ changes.removed_recommendations # {}
    /\ changes.changed_recommendations \cup changes.unchanged_recommendations # {}

\* C9: a symbol of both sets is changed exactly when its recommendation_type
\* differs or its confidence differs by more than 0.1, and unchanged
\* otherwise (buy 0.6 against buy 0.65 is unchanged, against buy 0.75 changed).
C9_ChangedIffTypeOrConfidence ==
    called =>
        \A i \in 1..Len(old_recommendations), j \in 1..Len(new_recommendations) :
            LET o == old_recommendations[i]
                n == new_recommendations[j]
                differs == \/ o.recommendation_type # n.recommendation_type
                           \/ o.confidence_score - n.confidence_score > 100
                           \/ n.confidence_score - o.confidence_score > 100
            IN o.stock_code = n.stock_code =>
                 /\ differs <=> o.stock_code \in CodesIn(changes.changed_recommendations)
                 /\ ~differs <=> o.stock_code \in CodesIn(changes.unchanged_recommendations)

\* the two cases of the scenario: OGDC buy 0.6 against buy 0.65 and buy 0.75
C9_Witness ==
    /\ called
    /\ old_recommendations = << Recommendation("OGDC", "buy", 600) >>
    /\ \/ /\ new_recommendations = << Recommendation("OGDC", "buy", 650) >>
          /\ CodesIn(changes.unchanged_recommendations) = {"OGDC"}
       \/ /\ new_recommendations = << Recommendation("OGDC", "buy", 750) >>
          /\ CodesIn(changes.changed_recommendations) = {"OGDC"}

\* C10: the diff never blocks persistence: a run that has left the stage
\* sequence and the diff step has attempted the save or is about to, and a
\* finished run has attempted it, with no prior set and with a failed diff too.
C10_SaveAttemptedAfterDiff ==
    \A r \in Runs :
        /\ pc[r] \in {"save_form_id", "save_recs", "build_result", "done"}
              => wf[r].save_attempted
        /\ (pc[r] \in AfterGraph /\ "compare" \in inputs[r].stage_failed)
              => (pc[r] = "save_form" \/ wf[r].save_attempted)

\* a finished run whose diff failed and whose save was attempted
C10_Witness ==
    \E r \in Runs : /\ pc[r] = "done" /\ "compare" \in inputs[r].stage_failed
                    /\ wf[r].save_attempted

\* the preferences with a field outside its enumerated domain
OutsideDomain(user_input) ==
    \/ user_input.sector_preference \notin
          {"Banking", "Technology", "Energy", "Healthcare", "Consumer Goods",
           "Real Estate", "Manufacturing", "Telecommunications", "Transportation",
           "Utilities", "Any"}
    \/ user_input.risk_tolerance \notin {"low", "moderate", "high"}
    \/ user_input.time_horizon \notin {"short", "medium", "long"}
    \/ user_input.investment_goal \notin {"growth", "income", "balanced", "conservative"}

\* C11: a request whose preferences have a field outside its domain is
\* answered with a validation failure on every entry path, and no step of the
\* pipeline executes for it.
C11_InvalidRequestRejected ==
    \A r \in Runs :
        (request[r].path # "none" /\ OutsideDomain(request[r].user_input)) =>
            /\ pc[r] = "idle"
            /\ request[r].response = "Invalid input provided"

\* C12: when the snapshot source yields an empty list, the technical analysis
\* is skipped: the run's list of technical profiles is empty, in the state
\* after the analysis stage and in the result, and the run goes on to its end.
C12_EmptySnapshotSkipsAnalysis ==
    \A r \in Runs :
        inputs[r].source_empty =>
            /\ (pc[r] \in (InGraph \cup AfterGraph) \ {"done"}
                    /\ Len(trace[r]) >= 2) => state[r].stock_analysis = << >>
            /\ pc[r] = "done" => result[r].stock_analysis = << >>

\* C13: in the per-company fan-out a failure for one company gives that
\* company the neutral profile and never fails the batch: every company asked
\* for has a profile, a failed one the neutral profile, and every other one
\* the profile the analysis of its own news gives.
C13_SymbolFailureIsolated ==
    /\ fan_pc \in {"awaiting", "returned"} =>
          DOMAIN results = {stock_codes[i] : i \in 1..tasks_awaited}
    /\ fan_pc = "returned" =>
          /\ DOMAIN results = Range(stock_codes)
          /\ \A c \in Range(stock_codes) :
                IF c \in task_failed
                THEN results[c] = [stock_code |-> c, overall_sentiment |-> "neutral",
                                   sentiment_score |-> 0, news_count |-> 0]
                ELSE results[c] =
                        analyze_news_for_company({a \in news_rows : a.stock_code = c}, c)

\* a returned batch in which one company failed and another has a bullish
\* profile
C13_Witness ==
    /\ fan_pc = "returned"
    /\ task_failed # {}
    /\ \E c \in Range(stock_codes) \ task_failed : results[c].overall_sentiment = "bullish"

\* C14: when the run is cancelled while the fan-out is at work, the tasks
\* not yet completed are abandoned: the stage ends with the profiles completed
\* before the cancellation and the neutral profile for every other company,
\* and it is not ended by the cancellation.
C14_CancelKeepsCompletedDefaultsRest ==
    cancel_at # -1 =>
        /\ fan_pc # "cancelled"
        /\ fan_pc = "returned" =>
              \A i \in 1..Len(stock_codes) :
                  LET c == stock_codes[i]
                  IN IF i <= cancel_at
                     THEN c \notin task_failed =>
                            results[c] = analyze_news_for_company(
                                             {a \in news_rows : a.stock_code = c}, c)
                     ELSE results[c] = [stock_code |-> c, overall_sentiment |-> "neutral",
                                        sentiment_score |-> 0, news_count |-> 0]

\* the shares of a stock the rows hold
HeldQuantity(rows, stock_code) ==
    SumOver(rows, {i \in 1..Len(rows) : rows[i].stock_code = stock_code},
            "current_quantity")

SellTypes == {"sell", "sell_transaction"}

ActiveCost(rows) ==
    Sum([i \in 1..Len(rows) |->
            IF rows[i].status = "active"
            THEN rows[i].current_quantity * rows[i].buy_price ELSE 0])

\* C16: once a snapshot is stored, its total_invested equals the sum over the
\* active Holdings of held quantity times buy_price (the session is strict,
\* so that only buy and sell decisions were recorded).
C16_TotalInvestedReconciles ==
    (sql_mode = "strict" /\ portfolios # << >>)
        => portfolios[1].total_invested = ActiveCost(investments)

HoldingStatuses == {"active", "partial_sold", "sold", "pending"}

\* C17: after any sequence of buy, sell, hold and pending decisions every
\* Holding's status is one of active, partial_sold, sold, pending.
C17_StatusInDomain ==
    \A i \in 1..Len(investments) : investments[i].status \in HoldingStatuses

\* the close price of the first market record of the symbol, buy_price when
\* the market data has none
RECURSIVE ResolvedPrice(_, _, _)
ResolvedPrice(records, stock_code, buy_price) ==
    IF records = << >> THEN buy_price
    ELSE IF Head(records).code = stock_code THEN Head(records).close_price
    ELSE ResolvedPrice(Tail(records), stock_code, buy_price)

\* C18: a reconciliation never fails, and every active Holding it reconciled
\* has current_value = held quantity x resolved_price, the price of the run's
\* market record of the symbol when there is one and buy_price otherwise.
C18_ReconciledValue ==
    reconcile_pc = "checked" =>
        /\ portfolio_result.status \in {"existing_user", "new_user"}
        /\ portfolio_result.status = "existing_user" =>
              LET held == get_user_investments(investments)
                  updated == portfolio_result.updated_holdings
              IN /\ Len(updated) = Len(held)
                 /\ \A i \in 1..Len(held) :
                       updated[i].current_value =
                           held[i].current_quantity
                             * ResolvedPrice(market_records, held[i].stock_code,
                                             held[i].buy_price)

\* where the cohort holds the record of a code
PositionOf(code) == CHOOSE k \in 1..Len(cohort) : cohort[k].code = code

\* C19: in the profiles the analyser returns every performance_score lies in
\* [0,100], the ranks are 1, 2, .., n in this order, a profile never has a
\* lower score than one ranked after it, and profiles of equal score stand in
\* the order of their records in the input.
C19_RankedByScore ==
    analyzer_pc = "returned" =>
        /\ \A i \in 1..Len(top_performers) :
              /\ top_performers[i].performance_score >= 0
              /\ top_performers[i].performance_score <= 10000
              /\ top_performers[i].rank = i
        /\ \A i, j \in 1..Len(top_performers) :
              i < j =>
                /\ top_performers[i].performance_score >= top_performers[j].performance_score
                /\ top_performers[i].performance_score = top_performers[j].performance_score
                      => PositionOf(top_performers[i].stock_code)
                             < PositionOf(top_performers[j].stock_code)

\* three profiles were ranked, two with the same score and one with another,
\* and a score was clamped to 100
C19_Witness ==
    /\ analyzer_pc = "returned"
    /\ Len(top_performers) = 3
    /\ \E i, j \in 1..3 :
          /\ i # j
          /\ top_performers[i].performance_score = top_performers[j].performance_score
    /\ \E i, j \in 1..3 :
          top_performers[i].performance_score # top_performers[j].performance_score
    /\ \E i \in 1..3 : top_performers[i].performance_score = 10000

\* the records of the cohort with high == low
FlatRange == {i \in 1..Len(cohort) : cohort[i].high_price = cohort[i].low_price}

C21_NoNewsIsNeutral ==
    (news_pc = "returned" /\ Len(news_items) = 0) =>
        /\ sentiment_profile.overall_sentiment = "neutral"
        /\ sentiment_profile.confidence = 0
        /\ sentiment_profile.news_count = 0
        /\ sentiment_profile.recommendation = "No recent news available for analysis."

C21_Witness ==
    /\ news_pc = "returned"
    /\ Len(news_items) = 0
    /\ sentiment_profile.overall_sentiment = "neutral"

PolarityCount(s) == Cardinality({i \in DOMAIN news_items : news_items[i].sentiment = s})

\* C22: over a non-empty list of news items the overall sentiment is bullish
\* exactly when the positive ratio exceeds the negative ratio and 0.4,
\* bearish exactly when the negative ratio exceeds the positive ratio and
\* 0.4, and neutral in every other case.
C22_SentimentByRatio ==
    (news_pc = "returned" /\ Len(news_items) > 0) =>
        LET n == Len(news_items)
            p == PolarityCount("positive")
            g == PolarityCount("negative")
            bull == p > g /\ 5 * p > 2 * n
            bear == g > p /\ 5 * g > 2 * n
        IN /\ (sentiment_profile.overall_sentiment = "bullish") <=> bull
           /\ (sentiment_profile.overall_sentiment = "bearish") <=> bear
           /\ (sentiment_profile.overall_sentiment = "neutral") <=> (~bull /\ ~bear)

\* five items, three positive, one negative, one neutral: bullish
C22_Witness ==
    /\ news_pc = "returned"
    /\ Len(news_items) = 5
    /\ PolarityCount("positive") = 3
    /\ PolarityCount("negative") = 1
    /\ PolarityCount("neutral") = 1
    /\ sentiment_profile.overall_sentiment = "bullish"

\* the user holds nothing: no row of investments, and the portfolios row,
\* if there is one, shows no value held
NothingHeld ==
    /\ risk_history = << >>
    /\ \/ risk_portfolio = None
       \/ risk_portfolio.total_value = 0 /\ risk_portfolio.total_profit_loss = 0

ModerateTolerance == risk_user = None \/ risk_user.risk_tolerance = "moderate"

\* C23: a user with no holdings and no trade history whose risk tolerance
\* is the default moderate gets risk_score 0.5 and risk_level moderate, and
\* the profile is a successful one, not an error.
C23_ModerateDefaults ==
    (risk_pc = "returned" /\ NothingHeld /\ ModerateTolerance) =>
        /\ risk_result.success = TRUE
        /\ risk_result.risk_profile.risk_score = 5000
        /\ risk_result.risk_profile.risk_level = "moderate"

\* C26: every sub-score lies in [0, 1] where it enters a weighted
\* combination: the behavior score, and the volatility, concentration,
\* liquidity and sector scores and the portfolio score they make.
C26_SubScoresInUnitInterval ==
    risk_pc = "returned" =>
        LET InUnit(x) == 0 <= x /\ x <= 10000
        IN /\ InUnit(risk_result.behavior_analysis.behavior_score)
           /\ InUnit(risk_result.portfolio_risk.portfolio_volatility)
           /\ InUnit(risk_result.portfolio_risk.concentration_risk)
           /\ InUnit(risk_result.portfolio_risk.liquidity_risk)
           /\ InUnit(risk_result.portfolio_risk.sector_risk)
           /\ InUnit(risk_result.portfolio_risk.overall_portfolio_risk)

\* C25: the technical engine gives a record a strong label, strong_buy or
\* strong_sell, only when the winning side leads by at least three votes.
C25_StrongNeedsThreeNetVotes ==
    analyzer_pc = "returned" =>
        \A i \in 1..Len(analyzed_stocks) :
            LET stock == analyze_each(cohort)[i]
                buy == buy_signals(stock, analyzed_stocks[i].performance_score)
                sell == sell_signals(stock, analyzed_stocks[i].performance_score)
            IN /\ analyzed_stocks[i].recommendation = "strong_buy" => buy - sell >= 3
               /\ analyzed_stocks[i].recommendation = "strong_sell" => sell - buy >= 3

\* the records of the cohort the engine can read
SoundRecords == SelectSeq(cohort, well_formed)

\* C28: a malformed market record fails alone: its symbol is in no profile
\* of the output, and the output is the one the engine gives for the same
\* input without the malformed records.
C28_MalformedRecordIsolated ==
    analyzer_pc = "returned" =>
        /\ \A i \in 1..Len(cohort) :
              ~well_formed(cohort[i]) =>
                  /\ \A k \in 1..Len(top_performers) :
                        top_performers[k].stock_code # cohort[i].code
                  /\ \A k \in 1..Len(analyzed_stocks) :
                        analyzed_stocks[k].stock_code # cohort[i].code
        /\ top_performers =
              analyze_stocks_advanced_agentic(
                  [i \in 1..Len(SoundRecords) |-> analyze_stock_comprehensive(SoundRecords[i])])
        /\ analyzed_stocks =
              [i \in 1..Len(SoundRecords) |-> analyzed_stock(SoundRecords[i])]

\* a malformed record stood before and behind records that were analysed
C28_Witness ==
    /\ analyzer_pc = "returned"
    /\ Len(cohort) = 3
    /\ well_formed(cohort[1])
    /\ ~well_formed(cohort[2])
    /\ well_formed(cohort[3])
    /\ Len(top_performers) = 2

\* C24: the type of every recommendation the synthesizer produces follows
\* from its risk_adjusted_score alone: strong_buy above 0.8, otherwise buy
\* above 0.6, otherwise hold above 0.4, otherwise sell.
C24_TypeByScore ==
    synth_pc = "returned" =>
        \A i \in 1..Len(synth_recs) :
            LET score == synth_recs[i].confidence_score
                type == synth_recs[i].recommendation_type
            IN /\ (type = "strong_buy") <=> (score > 800)
               /\ (type = "buy") <=> (score > 600 /\ score <= 800)
               /\ (type = "hold") <=> (score > 400 /\ score <= 600)
               /\ (type = "sell") <=> (score <= 400)

\* a recommendation scored exactly 0.6 was made a hold next to a buy scored
\* above it
C24_Witness ==
    /\ synth_pc = "returned"
    /\ \E i \in 1..Len(synth_recs) :
          synth_recs[i].confidence_score = 600 /\ synth_recs[i].recommendation_type = "hold"
    /\ \E i \in 1..Len(synth_recs) :
          synth_recs[i].confidence_score > 600 /\ synth_recs[i].recommendation_type = "buy"

\* C27: the expected_return of every recommendation of a run is 100 times
\* the momentum the technical engine computed for its symbol in that run.
C27_ExpectedReturnFromMomentum ==
    synth_pc = "returned" =>
        \A i \in 1..Len(synth_recs) :
            \A k \in 1..Len(analyzed_stocks) :
                analyzed_stocks[k].stock_code = synth_recs[i].stock_code =>
                    synth_recs[i].expected_return
                        = 100 * analyzed_stocks[k].technical_analysis.momentum

\* C29: a buy that record_investment_transaction rejects leaves the ledger
\* as it was: the investments rows, the portfolio snapshot and the user's
\* cash and totals after the call equal those before it.
C29_RejectedBuyLeavesLedger ==
    [][(/\ decisions' = decisions + 1
        /\ decision'.decision_type = "buy"
        /\ outcome' = "error")
       => (/\ investments' = investments
           /\ portfolios' = portfolios
           /\ account' = account)]_vars

\* the attempts of the fetch that extracted a non-empty list
Fruitful == {i \in 1..Len(attempts) : attempts[i].stocks # << >>}

\* C30: a snapshot fetch makes at most max_retries = 3 attempts and never
\* raises; it returns the list of the first attempt that extracted a
\* non-empty one, making no attempt after it, and it returns the empty list
\* once all max_retries attempts have failed.
C30_BoundedFetch ==
    /\ scrape_pc # "raised"
    /\ Len(attempts) <= max_retries
    /\ scrape_pc = "trying" => (Len(attempts) < max_retries /\ Fruitful = {})
    /\ scrape_pc = "returned" =>
          IF Fruitful = {}
          THEN scrape_result = << >> /\ Len(attempts) = max_retries
          ELSE /\ Fruitful = {Len(attempts)}
               /\ scrape_result = attempts[Len(attempts)].stocks

\* the fetch returned the empty list after an exception in its last attempt
C30_Witness ==
    /\ scrape_pc = "returned"
    /\ scrape_result = << >>
    /\ Len(attempts) = max_retries
    /\ attempts[max_retries].kind = "exception"

====
